---- MODULE Spec2Model ----
(***************************************************************************)
(* casf-core verifier: the /verify decision pipeline (anti-replay gate,    *)
(* rule engine with the SMS rate limiter, policy client, hash-chained      *)
(* audit log) as a state machine of concurrent calls over the shared       *)
(* Redis keys and the audit_events table.                                  *)
(***************************************************************************)
EXTENDS Naturals, Sequences, FiniteSets, TLC

\* ---------------------------------------------------------------- bounds

\* Number of /verify calls a behaviour contains (each runs once).
MaxCalls == 2

\* The clock stops after this many ticks.
MaxTime == 2

\* Number of calls a behaviour contains where the calls are studied one by one.
MaxSoloCalls == 1

\* Longest list of violations a property about lists is checked on.
MaxViolations == 3

\* ------------------------------------------------------------- settings

\* settings.py: entry lifetime, rate limit and window, in clock ticks.
ANTI_REPLAY_TTL_SECONDS == 2

SMS_RATE_LIMIT == 1

SMS_RATE_WINDOW_S == 2

\* No per-tenant override is configured (settings.py default "{}").
SMS_RATE_TENANT_OVERRIDES == [t \in {} |-> [limit |-> 0, window_s |-> 0]]

\* ----------------------------------------------------------- data model

Procs == 1..MaxCalls

\* An absent value (Python None, a missing key) and a present one.
None == <<>>

Some(x) == <<x>>

\* One request id per call of a behaviour is enough to tell them all apart.
RequestId(i) == "r" \o ToString(i)

RequestIds == {RequestId(i) : i \in Procs}

Tools == {"cliniccloud.list_appointments", "twilio.send_sms"}

Modes == {"ALLOW", "READ_ONLY"}

PatientIds == {"p1", "p2"}

TenantIds == {"t1"}

\* models.py VerifyRequestV1 as the transport delivers it: patient_id and
\* tenant_id are non-empty (min_length=1), context.timestamp is optional.
VerifyRequestV1 == [request_id : RequestIds, tool : Tools, mode : Modes,
                    role : {"nurse"}, patient_id : PatientIds,
                    tenant_id : TenantIds, timestamp : BOOLEAN]

\* Request ids and patient ids are interchangeable labels: the first call
\* takes the first of each.
FirstOf(p) ==
    IF p = 1
    THEN {r \in VerifyRequestV1 : r.request_id = "r1" /\ r.patient_id = "p1"}
    ELSE VerifyRequestV1

\* Requests without the optional context.timestamp.
Requests(p) == {r \in FirstOf(p) : ~r.timestamp}

VerifyResponseV1(decision, violations, allowed_outputs, reason) ==
    [decision |-> decision, violations |-> violations,
     allowed_outputs |-> allowed_outputs, reason |-> reason]

WRITE_TOOLS == {"cliniccloud.create_appointment", "cliniccloud.cancel_appointment",
                "twilio.send_sms", "stripe.generate_invoice"}

READ_ONLY_ALLOWED == [t \in {"cliniccloud.list_appointments"} |-> <<"slots_aggregated">>]

is_write_tool(tool) == tool \in WRITE_TOOLS

InSeq(x, s) == \E i \in 1..Len(s) : s[i] = x

\* ------------------------------------------------------ rate_limiter.py

\* request_body with request_id removed; json.dumps has no default hook, so a
\* body whose context.timestamp is a datetime raises TypeError.
fingerprint_body(request_body) ==
    [k \in DOMAIN request_body \ {"request_id"} |-> request_body[k]]

_request_fingerprint(request_body) ==
    IF request_body.timestamp
    THEN [raised |-> TRUE, fp |-> None]
    ELSE [raised |-> FALSE, fp |-> Some(fingerprint_body(request_body))]

\* A Redis key: absent, or a value with its remaining time to live.
NoKey == [present |-> FALSE]

Key(value, ttl) == [present |-> TRUE, value |-> value, ttl |-> ttl]

\* A faulty counter script that sets the expiry again on every increment.
IncrRenewsExpire(k, window_s) ==
    LET current == IF k.present THEN k.value + 1 ELSE 1
    IN  [ret |-> current, key |-> Key(current, window_s)]

\* LUA_INCR_EXPIRE on one key: INCR, and EXPIRE only when the counter is new.
LUA_INCR_EXPIRE(k, window_s) ==
    LET current == IF k.present THEN k.value + 1 ELSE 1
    IN  [ret |-> current,
         key |-> IF current = 1 THEN Key(current, window_s) ELSE Key(current, k.ttl)]

\* A faulty claim that sets the key without looking for an existing value.
ClaimWithoutGet(k, claim_value, ttl_s) ==
    [ret |-> None, key |-> Key(claim_value, ttl_s)]

\* A faulty claim that renews the lifetime of the entry it finds.
ClaimRenewsTtl(k, claim_value, ttl_s) ==
    IF k.present
    THEN [ret |-> Some(k.value), key |-> Key(k.value, ttl_s)]
    ELSE [ret |-> None, key |-> Key(claim_value, ttl_s)]

\* LUA_REPLAY_CHECK on one key: GET, else SET ... EX ttl.
LUA_REPLAY_CHECK(k, claim_value, ttl_s) ==
    IF k.present
    THEN [ret |-> Some(k.value), key |-> k]
    ELSE [ret |-> None, key |-> Key(claim_value, ttl_s)]

\* A faulty store that writes with SET ... XX and no KEEPTTL: the entry loses
\* its TTL and outlives every horizon.
SetXxPersists(k, value) == IF k.present THEN Key(value, MaxTime + 1) ELSE k

\* A faulty store that writes with SET ... EX ttl_s, entry or not.
SetExTtl(k, value) == Key(value, ANTI_REPLAY_TTL_SECONDS)

\* SET key value XX KEEPTTL.
SET_XX_KEEPTTL(k, value) ==
    IF k.present THEN Key(value, k.ttl) ELSE k

RateLimitResult(allowed, count) == [allowed |-> allowed, count |-> count]

\* A faulty check that lets one request too many through.
CheckAllowsOneMore(count, limit) ==
    IF count <= limit + 1 THEN RateLimitResult(TRUE, count) ELSE RateLimitResult(FALSE, count)

\* RateLimiter.check, given the script's return value.
check(count, limit) ==
    IF count <= limit THEN RateLimitResult(TRUE, count) ELSE RateLimitResult(FALSE, count)

ReplayCheckResult(is_new, cached_decision, fingerprint_match) ==
    [is_new |-> is_new, cached_decision |-> cached_decision,
     fingerprint_match |-> fingerprint_match]

\* A faulty check_replay that takes every existing entry for a match.
CheckReplayIgnoresFingerprint(result, fp) ==
    IF result = None THEN ReplayCheckResult(TRUE, None, TRUE)
    ELSE ReplayCheckResult(FALSE, result[1].decision, TRUE)

\* A faulty check_replay that never hands out the stored decision.
CheckReplayDropsDecision(result, fp) ==
    IF result = None THEN ReplayCheckResult(TRUE, None, TRUE)
    ELSE IF result[1].fp # fp THEN ReplayCheckResult(FALSE, None, FALSE)
    ELSE ReplayCheckResult(FALSE, None, TRUE)

\* RateLimiter.check_replay after the script returned `result`.
check_replay(result, fp) ==
    IF result = None
    THEN ReplayCheckResult(TRUE, None, TRUE)
    ELSE LET stored == result[1]
         IN  IF stored.fp # fp
             THEN ReplayCheckResult(FALSE, None, FALSE)
             ELSE ReplayCheckResult(FALSE, stored.decision, TRUE)

\* -------------------------------------------------------------- rules.py

SmsKey(req) == <<req.tenant_id, req.patient_id>>

SmsKeys == TenantIds \X PatientIds

SmsLimit(tenant_id) ==
    IF tenant_id \in DOMAIN SMS_RATE_TENANT_OVERRIDES
    THEN SMS_RATE_TENANT_OVERRIDES[tenant_id].limit
    ELSE SMS_RATE_LIMIT

SmsWindow(tenant_id) ==
    IF tenant_id \in DOMAIN SMS_RATE_TENANT_OVERRIDES
    THEN SMS_RATE_TENANT_OVERRIDES[tenant_id].window_s
    ELSE SMS_RATE_WINDOW_S

\* Whether apply_rules_v0 reaches rl.check for this request.
RulesCallLimiter(req) ==
    /\ req.patient_id # ""
    /\ ~(req.mode \in {"READ_ONLY", "KILL_SWITCH"} /\ is_write_tool(req.tool))
    /\ ~(req.mode = "READ_ONLY" /\ req.tool \in DOMAIN READ_ONLY_ALLOWED)
    /\ req.tool = "twilio.send_sms"

\* Faulty rules that hand out a tool's read-only projection in every mode.
ApplyRulesProjectsInEveryMode(req, rl) ==
    IF req.patient_id = ""
    THEN VerifyResponseV1("DENY", <<"BadRequest_MissingPatientId">>, <<>>,
                          "subject.patient_id required")
    ELSE IF req.mode \in {"READ_ONLY", "KILL_SWITCH"} /\ is_write_tool(req.tool)
    THEN VerifyResponseV1("DENY", <<"Inv_NoWriteSafe">>, <<>>,
                          "No writes allowed in " \o req.mode)
    ELSE IF req.tool \in DOMAIN READ_ONLY_ALLOWED
    THEN VerifyResponseV1("ALLOW", <<>>, READ_ONLY_ALLOWED[req.tool],
                          "OK (READ_ONLY degraded output)")
    ELSE IF req.tool = "twilio.send_sms" /\ rl.kind \in {"none", "raised"}
    THEN VerifyResponseV1("DENY", <<"FAIL_CLOSED", "Inv_NoSmsBurst">>, <<>>,
                          "Rate limiter unavailable (fail-closed)")
    ELSE IF req.tool = "twilio.send_sms" /\ ~rl.result.allowed
    THEN VerifyResponseV1("DENY", <<"Inv_NoSmsBurst">>, <<>>, "SMS rate limit exceeded")
    ELSE VerifyResponseV1("ALLOW", <<>>, <<>>, "OK")

\* apply_rules_v0; rl is "none" (no limiter), "raised" (check raised) or
\* the RateLimitResult of the check.
apply_rules_v0(req, rl) ==
    IF req.patient_id = ""
    THEN VerifyResponseV1("DENY", <<"BadRequest_MissingPatientId">>, <<>>,
                          "subject.patient_id required")
    ELSE IF req.mode \in {"READ_ONLY", "KILL_SWITCH"} /\ is_write_tool(req.tool)
    THEN VerifyResponseV1("DENY", <<"Inv_NoWriteSafe">>, <<>>,
                          "No writes allowed in " \o req.mode)
    ELSE IF req.mode = "READ_ONLY" /\ req.tool \in DOMAIN READ_ONLY_ALLOWED
    THEN VerifyResponseV1("ALLOW", <<>>, READ_ONLY_ALLOWED[req.tool],
                          "OK (READ_ONLY degraded output)")
    ELSE IF req.tool = "twilio.send_sms" /\ rl.kind = "none"
    THEN VerifyResponseV1("DENY", <<"FAIL_CLOSED", "Inv_NoSmsBurst">>, <<>>,
                          "Rate limiter not available")
    ELSE IF req.tool = "twilio.send_sms" /\ rl.kind = "raised"
    THEN VerifyResponseV1("DENY", <<"FAIL_CLOSED", "Inv_NoSmsBurst">>, <<>>,
                          "Rate limiter unavailable (fail-closed)")
    ELSE IF req.tool = "twilio.send_sms" /\ ~rl.result.allowed
    THEN VerifyResponseV1("DENY", <<"Inv_NoSmsBurst">>, <<>>, "SMS rate limit exceeded")
    ELSE VerifyResponseV1("ALLOW", <<>>, <<>>, "OK")

\* --------------------------------------------------------- opa_client.py

\* What the HTTP exchange with the policy engine can end in.
OpaResults == {
    [allow |-> Some(TRUE), violations |-> Some(<<>>)],
    [allow |-> Some(TRUE), violations |-> None],
    [allow |-> Some(FALSE), violations |-> Some(<<>>)],
    [allow |-> Some(FALSE), violations |-> Some(<<"V1", "V2", "V1">>)],
    [allow |-> None, violations |-> None] }

OpaExchanges ==
    {[t |-> x] : x \in {"timeout", "connect_error", "http_error", "non_json", "json_list"}}
    \cup {[t |-> "status", status_code |-> c] : c \in {500}}
    \cup {[t |-> "json", result |-> None]}
    \cup {[t |-> "json", result |-> Some(r)] : r \in OpaResults}

OpaDecision(allow, violations) == [allow |-> allow, violations |-> violations]

Returned(v) == [raised |-> "", value |-> v]

Raised(exc, kind) == [raised |-> exc, kind |-> kind]

\* OpaClient.evaluate on the outcome of the POST.
evaluate(x) ==
    IF x.t = "timeout" THEN Raised("OpaError", "timeout")
    ELSE IF x.t \in {"connect_error", "http_error"} THEN Raised("OpaError", "unavailable")
    ELSE IF x.t = "status" /\ x.status_code >= 400 THEN Raised("OpaError", "bad_status")
    ELSE IF x.t = "non_json" THEN Raised("OpaError", "bad_response")
    ELSE IF x.t = "json_list" THEN Raised("AttributeError", "")
    ELSE LET result == IF x.t = "json" /\ x.result # None
                       THEN x.result[1]
                       ELSE [allow |-> None, violations |-> None]
             allow == IF result.allow = None THEN FALSE ELSE result.allow[1]
             violations == IF result.violations = None THEN <<>> ELSE result.violations[1]
         IN  Returned(OpaDecision(allow, violations))

\* A faulty deduplication that keeps every value where it occurs last.
RECURSIVE DedupKeepsLast(_)
DedupKeepsLast(s) ==
    IF s = <<>> THEN <<>>
    ELSE LET rest == DedupKeepsLast(Tail(s))
         IN  IF InSeq(Head(s), rest) THEN rest ELSE <<Head(s)>> \o rest

\* list(dict.fromkeys(s)): duplicates dropped, first occurrences in order.
RECURSIVE Dedup(_)
Dedup(s) ==
    IF s = <<>> THEN <<>>
    ELSE LET front == Dedup(SubSeq(s, 1, Len(s) - 1))
             last == s[Len(s)]
         IN  IF InSeq(last, front) THEN front ELSE Append(front, last)

\* -------------------------------------------------------------- audit.py

\* The serialised form of a payload: one string per payload.
_canonical_json(obj) == [json |-> obj]

\* SHA-256 of a string, taken as collision free; "" is the empty sequence.
_sha256_hex(s) == <<s>>

compute_hash(request_id, event_id, ts, actor, action, decision, payload, prev_hash) ==
    _sha256_hex(<<request_id, event_id, ts, actor, action, decision,
                  _canonical_json(payload), prev_hash>>)

AuditEventV1(event_id, request_id, ts, actor, action, decision, payload, prev_hash, hash) ==
    [event_id |-> event_id, request_id |-> request_id, ts |-> ts, actor |-> actor,
     action |-> action, decision |-> decision, payload |-> payload,
     prev_hash |-> prev_hash, hash |-> hash]

\* The least element of a non-empty set of numbers.
Least(S) == CHOOSE i \in S : \A j \in S : i <= j

\* A faulty verifier that checks the links and never recomputes a hash.
VerifyChainLinksOnly(events) ==
    LET Broken == {i \in 1..Len(events) :
                      events[i].prev_hash # (IF i > 1 THEN events[i - 1].hash ELSE <<>>)}
    IN  IF Broken = {} THEN <<TRUE, None>> ELSE <<FALSE, Some(Least(Broken) - 1)>>

\* verify_chain: (True, None), or (False, i) for the first event, counted from
\* 0, whose prev_hash is not its predecessor's hash or whose hash does not
\* recompute.
verify_chain(events) ==
    LET Broken ==
            {i \in 1..Len(events) :
                \/ events[i].prev_hash # (IF i > 1 THEN events[i - 1].hash ELSE <<>>)
                \/ events[i].hash # compute_hash(events[i].request_id, events[i].event_id,
                                                 events[i].ts, events[i].actor,
                                                 events[i].action, events[i].decision,
                                                 events[i].payload, events[i].prev_hash)}
    IN  IF Broken = {} THEN <<TRUE, None>> ELSE <<FALSE, Some(Least(Broken) - 1)>>

\* SELECT hash FROM audit_events ORDER BY id DESC LIMIT 1, on the committed rows.
_get_prev_hash(rows) ==
    IF rows = <<>> THEN <<>>
    ELSE LET last == CHOOSE i \in 1..Len(rows) : \A j \in 1..Len(rows) : rows[j].id <= rows[i].id
         IN  rows[last].event.hash

\* ---------------------------------------------------------------- state

VARIABLES
    env,            \* settings read from the environment, fixed per behaviour
    now,            \* the clock
    replay_keys,    \* Redis keys casf:req:{request_id}
    sms_keys,       \* Redis keys sms:{tenant_id}:{patient_id}
    audit_events,   \* committed rows of the audit table, in id order
    id_seq,         \* last value drawn from the table's id sequence
    lock,           \* holder of pg_advisory_xact_lock(42), 0 when free
    pc,             \* where each /verify call stands
    req,            \* the call's request
    res,            \* the call's local `res` (or the cached response)
    evt,            \* locals of the call's append_audit_event
    out,            \* the HTTP answer of the call
    METRICS,        \* the metrics registry: _counters and _gauges
    did,            \* history: what the call has done so far, with the
                    \* METRICS call sites of main.py it has run ("L117" ...)
    done_before,    \* history: the calls already answered when this one arrived
    found,          \* history: the entry the call's Stage A claim was answered with
    passed_a,       \* history: calls gone past Stage A per live casf:req key
    sms_allowed     \* history: rule ALLOWs given per sms key since the key was created

vars == <<env, now, replay_keys, sms_keys, audit_events, id_seq, lock,
          pc, req, res, evt, out, METRICS, did, done_before, found, passed_a,
          sms_allowed>>

shared == <<replay_keys, sms_keys, audit_events, id_seq, lock>>

NoEvt == [purpose |-> ""]

\* ------------------------------------------------------------- metrics.py

\* The counters of main.py kept here, as (name, label value).
CounterKeys ==
    {<<"casf_verify_total", "">>,
     <<"casf_replay_mismatch_total", "">>,
     <<"casf_replay_hit_total", "">>,
     <<"casf_replay_concurrent_total", "">>}
    \cup {<<"casf_verify_decision_total", d>> : d \in {"ALLOW", "DENY"}}
    \cup {<<"casf_fail_closed_total", t>> : t \in {"redis", "rules", "opa", "audit"}}

GaugeKeys == {"casf_verify_in_flight"}

\* The registry after construction: every counter and gauge reads 0.
\* The registry at start: no counter or gauge was touched, and the histogram
\* casf_verify_duration_seconds is registered without any series yet.
NoMetrics ==
    [counters |-> [k \in CounterKeys |-> 0], gauges |-> [g \in GaugeKeys |-> 0],
     hist_counts |-> None, hist_sums |-> None]

\* The METRICS.inc call sites of main.py by line, and the counter each one
\* increments; lines 143, 222 and 240 label with the decision they return.
SiteCounter(site) ==
    IF site = "L89" THEN Some(<<"casf_verify_total", "">>)
    ELSE IF site \in {"L117", "L131", "L157", "L175", "L200", "L212",
                      "L143:DENY", "L222:DENY", "L240:DENY"}
    THEN Some(<<"casf_verify_decision_total", "DENY">>)
    ELSE IF site \in {"L143:ALLOW", "L222:ALLOW", "L240:ALLOW"}
    THEN Some(<<"casf_verify_decision_total", "ALLOW">>)
    ELSE IF site = "L118" THEN Some(<<"casf_fail_closed_total", "redis">>)
    ELSE IF site = "L176" THEN Some(<<"casf_fail_closed_total", "rules">>)
    ELSE IF site = "L201" THEN Some(<<"casf_fail_closed_total", "opa">>)
    ELSE IF site = "L132" THEN Some(<<"casf_replay_mismatch_total", "">>)
    ELSE IF site = "L144" THEN Some(<<"casf_replay_hit_total", "">>)
    ELSE IF site = "L158" THEN Some(<<"casf_replay_concurrent_total", "">>)
    ELSE None

\* _Metrics.inc, once for each of `sites`: under the registry's lock, one
\* step each, so their order does not show.
inc(counters, sites) ==
    [k \in CounterKeys |->
        counters[k] + Cardinality({site \in sites : SiteCounter(site) = Some(k)})]

\* _Metrics.gauge_inc (line 90 of main.py) and gauge_dec (line 94).
gauge_inc(gauges, sites) ==
    [g \in GaugeKeys |-> gauges[g] + (IF "L90" \in sites THEN 1 ELSE 0)]

gauge_dec(gauges, sites) ==
    [g \in GaugeKeys |-> gauges[g] - (IF "L94" \in sites THEN 1 ELSE 0)]

\* The call sites of METRICS in verify() and _verify_core.
Sites ==
    {"L89", "L90", "L94", "L117", "L118", "L131", "L132", "L144", "L157", "L158",
     "L175", "L176", "L200", "L201", "L212"}
    \cup {l \o d : l \in {"L143:", "L222:", "L240:"}, d \in {"ALLOW", "DENY"}}

\* The registry after call p ran the METRICS calls of this step.
Metered(p) ==
    LET sites == did'[p] \ did[p]
    IN  [counters |-> inc(METRICS.counters, sites),
         gauges |-> gauge_dec(gauge_inc(METRICS.gauges, sites), sites),
         hist_counts |-> METRICS.hist_counts,
         hist_sums |-> METRICS.hist_sums]

\* A faulty verify() that decrements the gauge after a normal return only.
DecOnReturnOnly(answer) == IF answer[1].status_code = 200 THEN {"L94"} ELSE {}

\* verify(), lines 91-94: the finally block runs however _verify_inner ended.
VerifyFinally(answer) == {"L94"}

Init ==
    /\ env \in [ANTI_REPLAY_ENABLED : BOOLEAN, CASF_DISABLE_AUDIT : BOOLEAN]
    /\ now = 0
    /\ replay_keys = [r \in RequestIds |-> NoKey]
    /\ sms_keys = [k \in SmsKeys |-> NoKey]
    /\ audit_events = <<>>
    /\ id_seq = 0
    /\ lock = 0
    /\ pc = [p \in Procs |-> "idle"]
    /\ req = [p \in Procs |-> None]
    /\ res = [p \in Procs |-> None]
    /\ evt = [p \in Procs |-> NoEvt]
    /\ out = [p \in Procs |-> None]
    /\ METRICS = NoMetrics
    /\ did = [p \in Procs |-> {}]
    /\ done_before = [p \in Procs |-> {}]
    /\ found = [p \in Procs |-> None]
    /\ passed_a = [r \in RequestIds |-> {}]
    /\ sms_allowed = [k \in SmsKeys |-> 0]

Req(p) == req[p][1]

Res(p) == res[p][1]

\* A 200 answer with a VerifyResponseV1 body, the 400 of a missing patient_id
\* and the 500 of an exception nothing catches.
Http200(body) == Some([status_code |-> 200, body |-> Some(body)])

Http400 == Some([status_code |-> 400, body |-> None])

Http500 == Some([status_code |-> 500, body |-> None])

\* The call returns `answer`.
Return(p, answer, tags) ==
    /\ out' = [out EXCEPT ![p] = answer]
    /\ pc' = [pc EXCEPT ![p] = "done"]
    /\ did' = [did EXCEPT ![p] = @ \cup tags \cup VerifyFinally(answer)]
    /\ evt' = [evt EXCEPT ![p] = NoEvt]

\* The call goes on at `label`.
Goto(p, label, tags) ==
    /\ pc' = [pc EXCEPT ![p] = label]
    /\ did' = [did EXCEPT ![p] = @ \cup tags]
    /\ UNCHANGED out

\* uuid.uuid4(): an id no other call draws (every call appends at most once).
uuid4(p) == p

\* The call enters append_audit_event(PG_DSN, req, r, action_override) for
\* `purpose`: the event's id, timestamp, actor, action and payload are fixed
\* (audit.py lines 133-141) before the connection is opened.
CallAudit(p, purpose, r, action_override, tags) ==
    /\ evt' = [evt EXCEPT ![p] =
                 [purpose |-> purpose,
                  event_id |-> uuid4(p),
                  ts |-> now,
                  actor |-> "role:" \o Req(p).role,
                  action |-> IF action_override # None THEN action_override[1]
                             ELSE Req(p).tool,
                  decision |-> r.decision,
                  payload |-> [request |-> Req(p), response |-> r]]]
    /\ Goto(p, "audit_lock", tags)

\* --------------------------------------------------------------- main.py

\* POST /verify is dispatched with a validated request.
Verify(p, r) ==
    /\ pc[p] = "idle"
    /\ req' = [req EXCEPT ![p] = Some(r)]
    /\ done_before' = [done_before EXCEPT ![p] = {q \in Procs : pc[q] = "done"}]
    /\ Goto(p, IF env.ANTI_REPLAY_ENABLED THEN "check_replay" ELSE "rules", {"L89", "L90"})
    /\ METRICS' = Metered(p)
    /\ UNCHANGED <<env, now, shared, res, evt, found, passed_a, sms_allowed>>

\* How a Redis round trip can end: answered, failed before the server ran the
\* command, or failed after it did (the reply was lost).
RedisFaults == {"none", "before", "after"}

\* History: the call leaves Stage A for the rules; it is counted with its key
\* when the key is live after the step.
PassedStageA(p) ==
    [passed_a EXCEPT ![Req(p).request_id] =
        IF replay_keys'[Req(p).request_id].present THEN @ \cup {p} ELSE @]

\* A faulty Stage A that lets every request go on when the claim raised.
ReplayCheckRaisedFailOpen(p, why) ==
    /\ Goto(p, "rules", {"replay_raised", why})
    /\ passed_a' = PassedStageA(p)
    /\ UNCHANGED <<res, evt>>

\* _verify_core lines 111-125: what follows a check_replay that raised.
ReplayCheckRaised(p, why) ==
    IF Req(p).tool \in WRITE_TOOLS
    THEN /\ Return(p, Http200(VerifyResponseV1("DENY",
                     <<"FAIL_CLOSED", "Inv_ReplayCheckUnavailable">>, <<>>,
                     "Replay check unavailable (fail-closed on write)")),
                   {"replay_raised", why, "L117", "L118"})
         /\ UNCHANGED <<res, passed_a>>
    ELSE /\ Goto(p, "rules", {"replay_raised", why})
         /\ passed_a' = PassedStageA(p)
         /\ UNCHANGED <<res, evt>>

\* A faulty Stage A that counts a payload mismatch and lets the request go on
\* to the rules.
ReplayMismatchGoesOn(p, replay_result) ==
    IF replay_result.is_new
    THEN /\ Goto(p, "rules", {"replay_new"})
         /\ passed_a' = PassedStageA(p)
         /\ UNCHANGED <<res, evt>>
    ELSE IF ~replay_result.fingerprint_match
    THEN /\ Goto(p, "rules", {"replay_mismatch", "L131"})
         /\ UNCHANGED <<res, evt, passed_a>>
    ELSE IF replay_result.cached_decision # None
    THEN /\ res' = [res EXCEPT ![p] = replay_result.cached_decision]
         /\ IF ~env.CASF_DISABLE_AUDIT
            THEN CallAudit(p, "replay", replay_result.cached_decision[1],
                           Some("REPLAY_DETECTED"),
                           {"replay_cached", "L144",
                            "L143:" \o replay_result.cached_decision[1].decision})
            ELSE Return(p, Http200(replay_result.cached_decision[1]),
                        {"replay_cached", "L144",
                         "L143:" \o replay_result.cached_decision[1].decision})
         /\ UNCHANGED passed_a
    ELSE /\ Return(p, Http200(VerifyResponseV1("DENY", <<"Inv_ReplayConcurrent">>, <<>>,
                     "request_id " \o Req(p).request_id \o " is being processed concurrently")),
                   {"replay_pending", "L157", "L158"})
         /\ UNCHANGED <<res, passed_a>>

\* _verify_core lines 127-164: what follows a check_replay that returned.
ReplayCheckReturned(p, replay_result) ==
    IF replay_result.is_new
    THEN /\ Goto(p, "rules", {"replay_new"})
         /\ passed_a' = PassedStageA(p)
         /\ UNCHANGED <<res, evt>>
    ELSE IF ~replay_result.fingerprint_match
    THEN /\ Return(p, Http200(VerifyResponseV1("DENY", <<"Inv_ReplayPayloadMismatch">>, <<>>,
                     "request_id " \o Req(p).request_id \o " already used with different payload")),
                   {"replay_mismatch", "L131", "L132"})
         /\ UNCHANGED <<res, passed_a>>
    ELSE IF replay_result.cached_decision # None
    THEN /\ res' = [res EXCEPT ![p] = replay_result.cached_decision]
         /\ IF ~env.CASF_DISABLE_AUDIT
            THEN CallAudit(p, "replay", replay_result.cached_decision[1],
                           Some("REPLAY_DETECTED"),
                           {"replay_cached", "L144",
                            "L143:" \o replay_result.cached_decision[1].decision})
            ELSE Return(p, Http200(replay_result.cached_decision[1]),
                        {"replay_cached", "L144",
                         "L143:" \o replay_result.cached_decision[1].decision})
         /\ UNCHANGED passed_a
    ELSE /\ Return(p, Http200(VerifyResponseV1("DENY", <<"Inv_ReplayConcurrent">>, <<>>,
                     "request_id " \o Req(p).request_id \o " is being processed concurrently")),
                   {"replay_pending", "L157", "L158"})
         /\ UNCHANGED <<res, passed_a>>

\* Stage A: rl.check_replay and the branches on its result.
CheckReplay(p) ==
    /\ pc[p] = "check_replay"
    /\ LET rid == Req(p).request_id
           fpr == _request_fingerprint(Req(p))
       IN  IF fpr.raised
           THEN /\ UNCHANGED <<replay_keys, found>>
                /\ ReplayCheckRaised(p, "fingerprint_raised")
           ELSE \E fault \in RedisFaults :
                  LET claim_value == [fp |-> fpr.fp[1], decision |-> None]
                      script == LUA_REPLAY_CHECK(replay_keys[rid], claim_value,
                                                 ANTI_REPLAY_TTL_SECONDS)
                  IN  /\ replay_keys' = IF fault = "before" THEN replay_keys
                                        ELSE [replay_keys EXCEPT ![rid] = script.key]
                      /\ found' = IF fault = "none" THEN [found EXCEPT ![p] = script.ret]
                                  ELSE found
                      /\ IF fault = "none"
                         THEN ReplayCheckReturned(p, check_replay(script.ret, fpr.fp[1]))
                         ELSE ReplayCheckRaised(p, "redis_raised")
    /\ METRICS' = Metered(p)
    /\ UNCHANGED <<env, now, sms_keys, audit_events, id_seq, lock,
                   req, done_before, sms_allowed>>

\* A faulty Stage B that sends a FAIL_CLOSED rule result on to the policy
\* engine like any other.
AfterRulesAsksPolicy(p, r) ==
    IF r.violations = <<"BadRequest_MissingPatientId">>
    THEN /\ Return(p, Http400, {"rules"})
         /\ UNCHANGED res
    ELSE /\ res' = [res EXCEPT ![p] = Some(r)]
         /\ Goto(p, "opa", {"rules"} \cup (IF InSeq("FAIL_CLOSED", r.violations)
                                           THEN {"rules_fail_closed"} ELSE {}))
         /\ UNCHANGED evt

\* _verify_core lines 169-182: what follows apply_rules_v0.
AfterRules(p, r) ==
    IF r.violations = <<"BadRequest_MissingPatientId">>
    THEN /\ Return(p, Http400, {"rules"})
         /\ UNCHANGED res
    ELSE IF InSeq("FAIL_CLOSED", r.violations)
    THEN /\ res' = [res EXCEPT ![p] = Some(r)]
         /\ IF ~env.CASF_DISABLE_AUDIT
            THEN CallAudit(p, "fail_closed", r, None,
                           {"rules", "rules_fail_closed", "L175", "L176"})
            ELSE Return(p, Http200(r), {"rules", "rules_fail_closed", "L175", "L176"})
    ELSE /\ res' = [res EXCEPT ![p] = Some(r)]
         /\ Goto(p, "opa", {"rules"})
         /\ UNCHANGED evt

\* Stage B: apply_rules_v0(req, rl=rl), with the limiter's round trip when the
\* rules reach it.
Rules(p) ==
    /\ pc[p] = "rules"
    /\ IF RulesCallLimiter(Req(p))
       THEN \E fault \in RedisFaults :
              LET key == SmsKey(Req(p))
                  script == LUA_INCR_EXPIRE(sms_keys[key], SmsWindow(Req(p).tenant_id))
                  rl == IF fault = "none"
                        THEN [kind |-> "ok",
                              result |-> check(script.ret, SmsLimit(Req(p).tenant_id))]
                        ELSE [kind |-> "raised"]
                  r == apply_rules_v0(Req(p), rl)
              IN  /\ sms_keys' = IF fault = "before" THEN sms_keys
                                 ELSE [sms_keys EXCEPT ![key] = script.key]
                  /\ sms_allowed' =
                       [sms_allowed EXCEPT ![key] =
                          IF fault = "before" THEN @
                          ELSE (IF sms_keys[key].present THEN @ ELSE 0)
                               + (IF r.decision = "ALLOW" THEN 1 ELSE 0)]
                  /\ AfterRules(p, r)
       ELSE /\ AfterRules(p, apply_rules_v0(Req(p), [kind |-> "unused"]))
            /\ UNCHANGED <<sms_keys, sms_allowed>>
    /\ METRICS' = Metered(p)
    /\ UNCHANGED <<env, now, replay_keys, audit_events, id_seq, lock,
                   req, done_before, found, passed_a>>

\* A faulty pipeline that goes from the policy straight to Stage E.
AfterPolicyWithoutAudit(p, tags) ==
    IF env.ANTI_REPLAY_ENABLED
    THEN Goto(p, "store", tags) /\ UNCHANGED evt
    ELSE Return(p, Http200(Res(p)), tags)

\* _verify_core lines 220-230: the rule result stands; on to Stage D, or
\* straight to Stage E when auditing is switched off.
AfterPolicy(p, tags) ==
    IF env.CASF_DISABLE_AUDIT
    THEN IF env.ANTI_REPLAY_ENABLED
         THEN Goto(p, "store", tags \cup {"L222:" \o Res(p).decision}) /\ UNCHANGED evt
         ELSE Return(p, Http200(Res(p)), tags \cup {"L222:" \o Res(p).decision})
    ELSE CallAudit(p, "decision", Res(p), None, tags)

\* A faulty Stage C that denies every request when the policy client raised.
OpaRaisedDenies(p) ==
    Return(p, Http200(VerifyResponseV1("DENY", <<"FAIL_CLOSED", "OPA_Unavailable">>,
                                       <<>>, "OPA unavailable (fail-closed on write)")),
           {"opa_error"})

\* _verify_core lines 198-209: what follows an OpaError.
OpaRaised(p) ==
    IF Req(p).tool \in WRITE_TOOLS
    THEN Return(p, Http200(VerifyResponseV1("DENY", <<"FAIL_CLOSED", "OPA_Unavailable">>,
                                            <<>>, "OPA unavailable (fail-closed on write)")),
                {"opa_error", "L200", "L201"})
    ELSE AfterPolicy(p, {"opa_error"})

\* A faulty Stage C in which the policy engine's allow replaces the rule
\* result.
OpaAllowOverridesRules(p, od) ==
    IF ~od.allow
    THEN Return(p, Http200(VerifyResponseV1("DENY",
                  Dedup(IF od.violations # <<>> THEN od.violations ELSE <<"OPA_Deny">>),
                  <<>>, "Denied by OPA policy")),
                {"opa_deny", "L212"})
    ELSE Return(p, Http200(VerifyResponseV1("ALLOW", <<>>, <<>>, "OK")), {"opa_allow"})

\* A faulty Stage C that leaves the rule result standing when the policy
\* engine denies.
OpaReturnedDenyIgnored(p, od) ==
    AfterPolicy(p, {IF od.allow THEN "opa_allow" ELSE "opa_deny"})

\* _verify_core lines 211-218: what follows a decision of the policy engine.
OpaReturned(p, od) ==
    IF ~od.allow
    THEN Return(p, Http200(VerifyResponseV1("DENY",
                  Dedup(IF od.violations # <<>> THEN od.violations ELSE <<"OPA_Deny">>),
                  <<>>, "Denied by OPA policy")),
                {"opa_deny", "L212"})
    ELSE AfterPolicy(p, {"opa_allow"})

\* Stage C: opa.evaluate and the branches on its outcome; an exception that is
\* no OpaError escapes the handler.
Opa(p) ==
    /\ pc[p] = "opa"
    /\ \E x \in OpaExchanges :
         LET od == evaluate(x)
         IN  IF od.raised = "OpaError" THEN OpaRaised(p)
             ELSE IF od.raised # "" THEN Return(p, Http500, {"opa_crash"})
             ELSE OpaReturned(p, od.value)
    /\ METRICS' = Metered(p)
    /\ UNCHANGED <<env, now, shared, req, res, done_before, found, passed_a, sms_allowed>>

\* res.reason = f"{res.reason} | audit_append_failed"
AuditAppendFailed(r) == [r EXCEPT !.reason = @ \o " | audit_append_failed"]

\* _verify_core lines 232-237: append_audit_event raised at Stage D.
StageDAuditFailed(p) ==
    /\ res' = [res EXCEPT ![p] = Some(AuditAppendFailed(@[1]))]
    /\ Return(p, Http200(AuditAppendFailed(Res(p))), {"audit_failed"})

\* A faulty handler that lets a failed REPLAY_DETECTED append turn the cached
\* answer into a DENY.
BestEffortFailureDenies(p, ok) ==
    IF evt[p].purpose = "replay" /\ ~ok
    THEN /\ Return(p, Http200([Res(p) EXCEPT !.decision = "DENY"]), {"audit_failed"})
         /\ UNCHANGED res
    ELSE IF evt[p].purpose = "replay"
    THEN Return(p, Http200(Res(p)), {"audit_ok"}) /\ UNCHANGED res
    ELSE IF evt[p].purpose = "fail_closed"
    THEN /\ res' = [res EXCEPT ![p] = IF ok THEN @ ELSE Some(AuditAppendFailed(@[1]))]
         /\ Return(p, Http200(IF ok THEN Res(p) ELSE AuditAppendFailed(Res(p))),
                   {IF ok THEN "audit_ok" ELSE "audit_failed"})
    ELSE IF ~ok
    THEN StageDAuditFailed(p)
    ELSE /\ UNCHANGED res
         /\ IF env.ANTI_REPLAY_ENABLED
            THEN /\ Goto(p, "store", {"audit_ok"})
                 /\ evt' = [evt EXCEPT ![p] = NoEvt]
            ELSE Return(p, Http200(Res(p)), {"audit_ok"})

\* What the caller of append_audit_event does once it returned (ok) or raised:
\* lines 147-154 (replay), 177-182 (rule FAIL_CLOSED), 232-241 (Stage D).
AfterAudit(p, ok) ==
    LET tag == IF ok THEN "audit_ok" ELSE "audit_failed"
    IN  IF evt[p].purpose = "replay"
        THEN Return(p, Http200(Res(p)), {tag}) /\ UNCHANGED res
        ELSE IF evt[p].purpose = "fail_closed"
        THEN /\ res' = [res EXCEPT ![p] = IF ok THEN @ ELSE Some(AuditAppendFailed(@[1]))]
             /\ Return(p, Http200(IF ok THEN Res(p) ELSE AuditAppendFailed(Res(p))), {tag})
        ELSE IF ~ok
        THEN StageDAuditFailed(p)
        ELSE /\ UNCHANGED res
             /\ IF env.ANTI_REPLAY_ENABLED
                THEN /\ Goto(p, "store", {tag, "L240:" \o Res(p).decision})
                     /\ evt' = [evt EXCEPT ![p] = NoEvt]
                ELSE Return(p, Http200(Res(p)), {tag, "L240:" \o Res(p).decision})

\* A faulty lock that every transaction gets at once.
LockNeverWaits(p) == TRUE

\* pg_advisory_xact_lock(42) returns only while no other transaction holds it.
LockGranted(p) == lock = 0

\* append_audit_event lines 143-152: the connection is opened, the transaction
\* takes the advisory lock and reads the chain head; a failure raises instead.
AuditLock(p) ==
    /\ pc[p] = "audit_lock"
    /\ \/ /\ LockGranted(p)
          /\ lock' = p
          /\ evt' = [evt EXCEPT ![p] =
                       [purpose |-> @.purpose, event_id |-> @.event_id, ts |-> @.ts,
                        actor |-> @.actor, action |-> @.action, decision |-> @.decision,
                        payload |-> @.payload,
                        prev_hash |-> _get_prev_hash(audit_events)]]
          /\ Goto(p, "audit_insert", {})
          /\ UNCHANGED res
       \/ /\ AfterAudit(p, FALSE)
          /\ UNCHANGED lock
    /\ METRICS' = Metered(p)
    /\ UNCHANGED <<env, now, replay_keys, sms_keys, audit_events, id_seq,
                   req, done_before, found, passed_a, sms_allowed>>

\* A faulty insert that records DENY as the decision of every event.
NewRowRecordsDeny(p, id) ==
    LET e == evt[p]
        h == compute_hash(Req(p).request_id, e.event_id, e.ts, e.actor, e.action,
                          "DENY", e.payload, e.prev_hash)
    IN  [id |-> id,
         event |-> AuditEventV1(e.event_id, Req(p).request_id, e.ts, e.actor, e.action,
                                "DENY", e.payload, e.prev_hash, h)]

\* The row append_audit_event inserts (lines 153-197); the table gives the id.
NewRow(p, id) ==
    LET e == evt[p]
        h == compute_hash(Req(p).request_id, e.event_id, e.ts, e.actor, e.action,
                          e.decision, e.payload, e.prev_hash)
    IN  [id |-> id,
         event |-> AuditEventV1(e.event_id, Req(p).request_id, e.ts, e.actor, e.action,
                                e.decision, e.payload, e.prev_hash, h)]

\* append_audit_event lines 153-197: the INSERT draws the row's id from the
\* table's sequence; a failing statement is rolled back and raised, which ends
\* the transaction and releases the advisory lock.
AuditInsert(p) ==
    /\ pc[p] = "audit_insert"
    /\ \/ /\ id_seq' = id_seq + 1
          /\ evt' = [evt EXCEPT ![p] = [purpose |-> @.purpose,
                                        row |-> NewRow(p, id_seq + 1)]]
          /\ Goto(p, "audit_commit", {})
          /\ UNCHANGED <<res, lock>>
       \/ /\ lock' = IF lock = p THEN 0 ELSE lock
          /\ AfterAudit(p, FALSE)
          /\ UNCHANGED id_seq
    /\ METRICS' = Metered(p)
    /\ UNCHANGED <<env, now, replay_keys, sms_keys, audit_events,
                   req, done_before, found, passed_a, sms_allowed>>

\* A faulty end of the transaction: a COMMIT that failed leaves the inserted
\* row in the table.
AuditCommitWithoutRollback(p) ==
    /\ pc[p] = "audit_commit"
    /\ lock' = IF lock = p THEN 0 ELSE lock
    /\ audit_events' = Append(audit_events, evt[p].row)
    /\ \/ AfterAudit(p, TRUE)
       \/ AfterAudit(p, FALSE)
    /\ METRICS' = Metered(p)
    /\ UNCHANGED <<env, now, replay_keys, sms_keys, id_seq,
                   req, done_before, found, passed_a, sms_allowed>>

\* append_audit_event lines 198-204: COMMIT makes the row visible and ends the
\* transaction, which releases the advisory lock; a COMMIT that fails is
\* rolled back and raised, the row is gone and the lock released as well.
AuditCommit(p) ==
    /\ pc[p] = "audit_commit"
    /\ lock' = IF lock = p THEN 0 ELSE lock
    /\ \/ /\ audit_events' = Append(audit_events, evt[p].row)
          /\ AfterAudit(p, TRUE)
       \/ /\ UNCHANGED audit_events
          /\ AfterAudit(p, FALSE)
    /\ METRICS' = Metered(p)
    /\ UNCHANGED <<env, now, replay_keys, sms_keys, id_seq,
                   req, done_before, found, passed_a, sms_allowed>>

\* Stage E: rl.store_decision under contextlib.suppress, then `return res`.
Store(p) ==
    /\ pc[p] = "store"
    /\ LET rid == Req(p).request_id
           fpr == _request_fingerprint(Req(p))
       IN  IF fpr.raised
           THEN /\ Return(p, Http200(Res(p)), {"fingerprint_raised"})
                /\ UNCHANGED replay_keys
           ELSE \E fault \in RedisFaults :
                  LET value == [fp |-> fpr.fp[1], decision |-> Some(Res(p))]
                  IN  /\ replay_keys' =
                           IF fault = "before" THEN replay_keys
                           ELSE [replay_keys EXCEPT ![rid] = SET_XX_KEEPTTL(@, value)]
                      /\ Return(p, Http200(Res(p)),
                                IF fault = "none" THEN {"store"} ELSE {"redis_raised"})
    /\ METRICS' = Metered(p)
    /\ UNCHANGED <<env, now, sms_keys, audit_events, id_seq, lock,
                   req, res, done_before, found, passed_a, sms_allowed>>

\* One unit of time passes: every key's time to live shrinks, and a key whose
\* time is up is gone.
Aged(k) ==
    IF k.present /\ k.ttl > 1 THEN Key(k.value, k.ttl - 1) ELSE NoKey

Tick ==
    /\ now < MaxTime
    /\ now' = now + 1
    /\ replay_keys' = [r \in RequestIds |-> Aged(replay_keys[r])]
    /\ sms_keys' = [k \in SmsKeys |-> Aged(sms_keys[k])]
    /\ passed_a' = [r \in RequestIds |->
                      IF Aged(replay_keys[r]).present THEN passed_a[r] ELSE {}]
    /\ sms_allowed' = [k \in SmsKeys |->
                         IF Aged(sms_keys[k]).present THEN sms_allowed[k] ELSE 0]
    /\ UNCHANGED <<env, audit_events, id_seq, lock,
                   pc, req, res, evt, out, METRICS, did, done_before, found>>

\* The steps of the calls in flight.
Step(p) ==
    \/ CheckReplay(p)
    \/ Rules(p)
    \/ Opa(p)
    \/ AuditLock(p)
    \/ AuditInsert(p)
    \/ AuditCommit(p)
    \/ Store(p)

Next ==
    \/ \E p \in Procs : \E r \in Requests(p) : Verify(p, r)
    \/ \E p \in Procs : Step(p)

Spec == Init /\ [][Next]_vars

\* The same service with the clock running, on requests that share keys.
ClockRequests(p) ==
    {r \in Requests(p) : r.mode = "ALLOW" /\ r.patient_id = "p1"}

ClockInit ==
    /\ Init
    /\ env.ANTI_REPLAY_ENABLED
    /\ ~env.CASF_DISABLE_AUDIT

ClockNext ==
    \/ \E p \in Procs : \E r \in ClockRequests(p) : Verify(p, r)
    \/ \E p \in Procs : Step(p)
    \/ Tick

ClockSpec == ClockInit /\ [][ClockNext]_vars

\* The same service on requests that share one request_id and may carry the
\* optional context.timestamp.
StampedRequests(p) ==
    {r \in FirstOf(p) : r.request_id = "r1" /\ r.mode = "ALLOW" /\ r.patient_id = "p1"}

StampedNext ==
    \/ \E p \in Procs : \E r \in StampedRequests(p) : Verify(p, r)
    \/ \E p \in Procs : Step(p)

StampedSpec == ClockInit /\ [][StampedNext]_vars

\* The service with anti-replay disabled and auditing on, each call carrying
\* its own request_id: the calls meet at the SMS counters and the audit table.
AuditRequests(p) ==
    {r \in Requests(p) : /\ r.request_id = RequestId(p)
                         /\ r.mode = "ALLOW"
                         /\ r.patient_id = "p1"}

AuditInit ==
    /\ Init
    /\ ~env.ANTI_REPLAY_ENABLED
    /\ ~env.CASF_DISABLE_AUDIT

AuditStep(p) ==
    \/ Rules(p)
    \/ Opa(p)
    \/ AuditLock(p)
    \/ AuditInsert(p)
    \/ AuditCommit(p)

AuditNext ==
    \/ \E p \in Procs : \E r \in AuditRequests(p) : Verify(p, r)
    \/ \E p \in Procs : AuditStep(p)

AuditSpec == AuditInit /\ [][AuditNext]_vars

\* The service answering MaxSoloCalls of the calls, under every environment.
SoloNext ==
    \/ \E p \in 1..MaxSoloCalls : \E r \in Requests(p) : Verify(p, r)
    \/ \E p \in Procs : Step(p)

SoloSpec == Init /\ [][SoloNext]_vars

\* The same service on requests that share one request_id and come in every
\* mode the safe-mode rule tells apart.
SafeModes == {"READ_ONLY", "KILL_SWITCH"}

SafeModeRequests ==
    [request_id : {"r1"}, tool : Tools, mode : SafeModes \cup {"ALLOW"},
     role : {"nurse"}, patient_id : {"p1"}, tenant_id : TenantIds,
     timestamp : {FALSE}]

SafeModeNext ==
    \/ \E p \in Procs : \E r \in SafeModeRequests : Verify(p, r)
    \/ \E p \in Procs : Step(p)

SafeModeSpec == Init /\ [][SafeModeNext]_vars

\* The request bodies as they arrive at POST /verify, before validation: the
\* subject may lack patient_id or carry an empty one.
RawPatientIds == {None, Some("")} \cup {Some(x) : x \in PatientIds}

RawRequests(p) ==
    {[request_id |-> RequestId(p), tool |-> t, mode |-> m, role |-> "nurse",
      patient_id |-> x, tenant_id |-> "t1", timestamp |-> FALSE] :
        t \in Tools, m \in Modes, x \in RawPatientIds}

\* models.py SubjectV1: patient_id is required and has min_length=1.
SubjectV1(patient_id) == patient_id # None /\ patient_id[1] # ""

\* The answer of the framework to a body that fails validation.
Http422 == Some([status_code |-> 422, body |-> None])

\* POST /verify with the body `raw`: the framework validates it against
\* VerifyRequestV1 and calls verify(req) only with a valid one; an invalid one
\* is answered 422 and the handler does not run.
Post(p, raw) ==
    IF SubjectV1(raw.patient_id)
    THEN Verify(p, [raw EXCEPT !.patient_id = @[1]])
    ELSE /\ pc[p] = "idle"
         /\ out' = [out EXCEPT ![p] = Http422]
         /\ pc' = [pc EXCEPT ![p] = "done"]
         /\ did' = [did EXCEPT ![p] = @ \cup {"no_patient_id"}]
         /\ UNCHANGED <<env, now, shared, req, res, evt, METRICS, done_before, found,
                        passed_a, sms_allowed>>

TransportNext ==
    \/ \E p \in 1..MaxSoloCalls : \E raw \in RawRequests(p) : Post(p, raw)
    \/ \E p \in Procs : Step(p)

TransportSpec == Init /\ [][TransportNext]_vars

\* The service with anti-replay and auditing disabled and the clock running,
\* on twilio.send_sms requests that each carry their own request_id: the calls
\* meet at the SMS counters.
RateRequests(p) ==
    {r \in Requests(p) : /\ r.request_id = RequestId(p)
                         /\ r.tool = "twilio.send_sms"
                         /\ r.mode = "ALLOW"}

RateInit ==
    /\ Init
    /\ ~env.ANTI_REPLAY_ENABLED
    /\ env.CASF_DISABLE_AUDIT

RateStep(p) ==
    \/ Rules(p)
    \/ Opa(p)

RateNext ==
    \/ \E p \in Procs : \E r \in RateRequests(p) : Verify(p, r)
    \/ \E p \in Procs : RateStep(p)
    \/ Tick

RateSpec == RateInit /\ [][RateNext]_vars

\* ------------------------------------------------------------ properties

Done(p) == pc[p] = "done"

Answered200(p) == Done(p) /\ out[p][1].status_code = 200

\* The VerifyResponseV1 of a 200 answer.
Body(p) == out[p][1].body[1]

Fp(p) == fingerprint_body(Req(p))

SameRequestId(p, q) == req[p] # None /\ req[q] # None /\ Req(p).request_id = Req(q).request_id

\* The call's Stage D append_audit_event raised.
StageDAuditFailure(p) ==
    /\ Done(p)
    /\ "audit_failed" \in did[p]
    /\ "replay_cached" \notin did[p]
    /\ "rules_fail_closed" \notin did[p]

\* C1: with auditing enabled, whenever append_audit_event fails at Stage D the
\* answer is 200 DENY with violations containing FAIL_CLOSED and
\* Audit_Unavailable; the preliminary decision is never returned.
C1_AuditFailureDenies ==
    \A p \in Procs :
        StageDAuditFailure(p) =>
            /\ out[p][1].status_code = 200
            /\ Body(p).decision = "DENY"
            /\ InSeq("FAIL_CLOSED", Body(p).violations)
            /\ InSeq("Audit_Unavailable", Body(p).violations)

\* C2 as stated: for a single request_id at most one call proceeds past Stage A
\* while the entry lives, store failures included.
C2_AtMostOnePastStageA ==
    \A rid \in RequestIds : Cardinality(passed_a[rid]) <= 1

ReplayOutcomes == {"replay_mismatch", "replay_pending", "replay_cached"}

\* C2, amended: for a single request_id at most one call whose claim the store
\* answered proceeds past Stage A while the entry lives; every call whose claim
\* was answered with an existing entry returns a replay outcome and runs no
\* rule, policy or decision audit. (A call whose claim raised is outside: a
\* read goes on past Stage A, a write is denied.)
C2_AtMostOneClaimPastStageA ==
    /\ \A rid \in RequestIds :
           Cardinality({p \in passed_a[rid] : "replay_new" \in did[p]}) <= 1
    /\ \A p \in Procs :
           found[p] # None =>
               /\ did[p] \cap ReplayOutcomes # {}
               /\ "replay_new" \notin did[p]
               /\ did[p] \cap {"rules", "opa_allow", "opa_deny", "opa_error", "store"} = {}
               /\ pc[p] \in {"audit_lock", "audit_insert", "audit_commit", "done"}
               /\ pc[p] # "done" => evt[p].purpose = "replay"

\* Two calls carry one request_id at once: the first claimed the entry and is
\* still at work, the second was answered that the id is being processed.
C2_Witness ==
    \E p, q \in Procs :
        /\ p # q /\ SameRequestId(p, q)
        /\ "replay_new" \in did[p] /\ ~Done(p)
        /\ "replay_pending" \in did[q] /\ Done(q)
        /\ passed_a[Req(p).request_id] = {p}

\* Two requests seen in sequence with one request_id and different bodies.
DifferentBodyAfter(p, q) ==
    /\ p \in done_before[q]
    /\ SameRequestId(p, q)
    /\ Fp(p) # Fp(q)

PayloadMismatch(p) ==
    /\ Answered200(p)
    /\ Body(p).decision = "DENY"
    /\ Body(p).violations = <<"Inv_ReplayPayloadMismatch">>

\* No call met a Redis failure.
StoreAnswers == \A p \in Procs : "redis_raised" \notin did[p]

\* C3: with anti-replay enabled and the store answering, the second of two
\* requests seen in sequence with the same request_id and different bodies is
\* answered 200 DENY [Inv_ReplayPayloadMismatch], whether the first request's
\* decision is pending or cached.
C3_SecondBodyDenied ==
    \A p, q \in Procs :
        /\ DifferentBodyAfter(p, q)
        /\ env.ANTI_REPLAY_ENABLED
        /\ StoreAnswers
        /\ Done(q)
        => PayloadMismatch(q)

\* The same, of requests without context.timestamp: here the code does as C3
\* says.
C3_SecondBodyDeniedUnstamped ==
    \A p, q \in Procs :
        /\ DifferentBodyAfter(p, q)
        /\ ~Req(p).timestamp /\ ~Req(q).timestamp
        /\ env.ANTI_REPLAY_ENABLED
        /\ StoreAnswers
        /\ Done(q)
        => PayloadMismatch(q)

\* C3, amended: with anti-replay enabled, the second request is answered 200
\* DENY [Inv_ReplayPayloadMismatch] when its claim is answered by the store
\* with an entry still carrying the first request's fingerprint, whether that
\* entry's decision is pending or cached; no rule, policy or audit step runs.
C3_SecondBodyDeniedWhenEntryFound ==
    \A p, q \in Procs :
        /\ DifferentBodyAfter(p, q)
        /\ found[q] # None
        /\ found[q][1].fp = Fp(p)
        => /\ PayloadMismatch(q)
           /\ did[q] \ Sites = {"replay_mismatch"}
           /\ \A i \in 1..Len(audit_events) : audit_events[i].event.event_id # uuid4(q)

\* The second request found the first's entry with its decision cached, and
\* another time with the decision pending.
C3_Witness ==
    \E p, q \in Procs :
        /\ DifferentBodyAfter(p, q)
        /\ found[q] # None /\ found[q][1].fp = Fp(p)
        /\ found[q][1].decision # None
        /\ PayloadMismatch(q)

SameBodyAfter(p, q) ==
    /\ p \in done_before[q]
    /\ SameRequestId(p, q)
    /\ Fp(p) = Fp(q)

SameDecision(a, b) == a.decision = b.decision /\ a.violations = b.violations

ById(rows) ==
    [k \in 1..Len(rows) |->
        rows[CHOOSE i \in 1..Len(rows) :
                 Cardinality({j \in 1..Len(rows) : rows[j].id < rows[i].id}) = k - 1]]

Recomputes(e) ==
    e.hash = compute_hash(e.request_id, e.event_id, e.ts, e.actor, e.action,
                          e.decision, e.payload, e.prev_hash)

\* C5: in every reachable state the rows of the audit table, ordered by id,
\* form one unforked chain: the first has the empty prev_hash, every later one
\* has its predecessor's hash as prev_hash, and every hash is compute_hash of
\* the row's own fields.
C5_UnforkedChain ==
    LET rows == ById(audit_events)
    IN  \A i \in 1..Len(rows) :
            /\ rows[i].event.prev_hash = IF i = 1 THEN <<>> ELSE rows[i - 1].event.hash
            /\ Recomputes(rows[i].event)

\* Two calls that were in flight together have both committed a row.
C5_Witness ==
    /\ Len(audit_events) = 2
    /\ \A p \in Procs : done_before[p] = {}
    /\ audit_events[2].event.prev_hash = audit_events[1].event.hash

RowsOf(p) == {i \in 1..Len(audit_events) : audit_events[i].event.event_id = uuid4(p)}

IdOrderIsCommitOrder ==
    \A i, j \in 1..Len(audit_events) : i < j => audit_events[i].id < audit_events[j].id

\* Every call was answered, the request_ids differ pairwise, auditing is on and
\* no dependency failed.
AllAnsweredHealthy ==
    /\ \A p \in Procs : Done(p)
    /\ \A p, q \in Procs : p # q => Req(p).request_id # Req(q).request_id
    /\ ~env.CASF_DISABLE_AUDIT
    /\ \A p \in Procs :
           did[p] \cap {"redis_raised", "fingerprint_raised", "rules_fail_closed",
                        "opa_error", "opa_crash", "audit_failed"} = {}

IsWrite(p) == Req(p).tool \in WRITE_TOOLS

\* What the rules give a read request (no limiter is consulted).
ReadRuleResult(p) == apply_rules_v0(Req(p), [kind |-> "unused"])

\* C7: when the Stage A claim raises, a write is answered 200 DENY
\* [FAIL_CLOSED, Inv_ReplayCheckUnavailable] and no rule, policy or audit step
\* runs; a read goes on through rules, policy and audit as a request does
\* with anti-replay disabled: it enters the rules with nothing decided, and
\* what it is answered is the rule result unless the policy engine denies.
C7_ReplayCheckRaised ==
    \A p \in Procs :
        "replay_raised" \in did[p] =>
            IF IsWrite(p)
            THEN /\ out[p] = Http200(VerifyResponseV1("DENY",
                                 <<"FAIL_CLOSED", "Inv_ReplayCheckUnavailable">>, <<>>,
                                 "Replay check unavailable (fail-closed on write)"))
                 /\ Done(p)
                 /\ did[p] \ Sites \subseteq {"replay_raised", "redis_raised", "fingerprint_raised"}
                 /\ res[p] = None
                 /\ RowsOf(p) = {}
            ELSE /\ pc[p] = "rules" => res[p] = None /\ out[p] = None /\ evt[p] = NoEvt
                 /\ pc[p] # "rules" => "rules" \in did[p]
                 /\ did[p] \cap ReplayOutcomes = {}
                 /\ Done(p) /\ did[p] \cap {"opa_allow", "opa_error"} # {}
                    => /\ Answered200(p)
                       /\ SameDecision(Body(p), ReadRuleResult(p))
                       /\ ~env.CASF_DISABLE_AUDIT
                          => did[p] \cap {"audit_ok", "audit_failed"} # {}

\* A read whose claim raised went on to be allowed and audited.
C7_Witness ==
    \E p \in Procs :
        /\ "replay_raised" \in did[p] /\ ~IsWrite(p) /\ Done(p)
        /\ "audit_ok" \in did[p] /\ Body(p).decision = "ALLOW"
        /\ Cardinality(RowsOf(p)) = 1

AuditAttempted(p) ==
    \/ pc[p] \in {"audit_lock", "audit_insert", "audit_commit"}
    \/ did[p] \cap {"audit_ok", "audit_failed"} # {}

RuleHardDeny(p) ==
    /\ "rules" \in did[p]
    /\ Res(p).decision = "DENY"
    /\ Res(p).violations \in {<<"Inv_NoWriteSafe">>, <<"Inv_NoSmsBurst">>}

SmsEvaluated(p) ==
    /\ req[p] # None
    /\ Req(p).tool = "twilio.send_sms"
    /\ Req(p).mode = "ALLOW"
    /\ "rules" \in did[p]
    /\ "rules_fail_closed" \notin did[p]

\* C10: per (tenant_id, patient_id), among the twilio.send_sms requests
\* evaluated within one rate window at most the limit receive a rule result of
\* ALLOW, and every one evaluated receives either ALLOW or DENY with
\* Inv_NoSmsBurst.
C10_AtMostLimitAllowed ==
    /\ \A k \in SmsKeys : sms_allowed[k] <= SmsLimit(k[1])
    /\ \A p \in Procs :
           SmsEvaluated(p) =>
               \/ Res(p).decision = "ALLOW" /\ Res(p).violations = <<>>
               \/ Res(p).decision = "DENY" /\ Res(p).violations = <<"Inv_NoSmsBurst">>

\* Two requests with distinct request_ids for one patient were evaluated in
\* one window, concurrently: one was allowed, the other denied as a burst.
C10_Witness ==
    \E p, q \in Procs :
        /\ SmsEvaluated(p) /\ SmsEvaluated(q)
        /\ Req(p).request_id # Req(q).request_id
        /\ SmsKey(Req(p)) = SmsKey(Req(q))
        /\ sms_keys[SmsKey(Req(p))].present
        /\ sms_keys[SmsKey(Req(p))].value = 2
        /\ sms_allowed[SmsKey(Req(p))] = 1
        /\ done_before[p] = {} /\ done_before[q] = {}
        /\ Res(p).decision = "ALLOW"
        /\ Res(q).violations = <<"Inv_NoSmsBurst">>

\* ------------------------------------------------------------------ C11

LimiterFailClosed == <<"FAIL_CLOSED", "Inv_NoSmsBurst">>

PolicyTags == {"opa_allow", "opa_deny", "opa_error", "opa_crash"}

\* C11: a twilio.send_sms request in a non-safe mode whose limiter is absent
\* or whose check raised is answered 200 DENY [FAIL_CLOSED, Inv_NoSmsBurst];
\* the policy engine is not consulted, the audit append is attempted unless
\* auditing is switched off, and a failed append leaves decision and
\* violations as they were.
C11_LimiterFailClosed ==
    /\ \A r \in VerifyRequestV1 :
           r.tool = "twilio.send_sms" /\ r.mode = "ALLOW" =>
               LET a == apply_rules_v0(r, [kind |-> "none"])
               IN  a.decision = "DENY" /\ a.violations = LimiterFailClosed
    /\ \A p \in Procs :
           "rules_fail_closed" \in did[p] =>
               /\ Req(p).tool = "twilio.send_sms"
               /\ Req(p).mode \notin {"READ_ONLY", "KILL_SWITCH"}
               /\ did[p] \cap PolicyTags = {}
               /\ pc[p] \notin {"opa", "store"}
               /\ Res(p).decision = "DENY"
               /\ Res(p).violations = LimiterFailClosed
               /\ IF env.CASF_DISABLE_AUDIT
                  THEN Done(p) /\ RowsOf(p) = {}
                  ELSE AuditAttempted(p)
               /\ Done(p) =>
                      /\ Answered200(p)
                      /\ Body(p) = Res(p)
                      /\ Body(p).allowed_outputs = <<>>
                      /\ Body(p).reason =
                             "Rate limiter unavailable (fail-closed)"
                             \o (IF "audit_failed" \in did[p]
                                 THEN " | audit_append_failed" ELSE "")
                      /\ "audit_ok" \in did[p] => Cardinality(RowsOf(p)) = 1

\* The limiter's check raised, the audit append failed, and the answer is the
\* DENY all the same.
C11_Witness ==
    \E p \in Procs :
        /\ "rules_fail_closed" \in did[p] /\ "audit_failed" \in did[p]
        /\ Done(p) /\ Answered200(p)
        /\ Body(p).decision = "DENY"
        /\ Body(p).violations = LimiterFailClosed

\* ------------------------------------------------------------------ C12

\* The committed events as a reader gets them: ordered by id, ascending.
StoredEvents ==
    LET rows == ById(audit_events)
    IN  [i \in 1..Len(rows) |-> rows[i].event]

\* Every other value a hash or prev_hash field can be given: the empty string,
\* a digest of something else, the hashes of the chain's events.
OtherHashes(events, h) ==
    ({<<>>, _sha256_hex(<<"tampered">>)} \cup {events[i].hash : i \in 1..Len(events)}) \ {h}

\* Other payloads: one field of the recorded response changed, or the payload
\* of another event of the chain.
OtherPayloads(events, payload) ==
    ({[payload EXCEPT !.response.decision = IF @ = "ALLOW" THEN "DENY" ELSE "ALLOW"],
      [payload EXCEPT !.response.reason = "tampered"],
      [payload EXCEPT !.request.tool = "stripe.generate_invoice"]}
     \cup {events[i].payload : i \in 1..Len(events)}) \ {payload}

\* The chains that differ from `events` in one field of the event at k only.
TamperedAt(events, k) ==
    {[events EXCEPT ![k].hash = h] : h \in OtherHashes(events, events[k].hash)}
    \cup {[events EXCEPT ![k].prev_hash = h] : h \in OtherHashes(events, events[k].prev_hash)}
    \cup {[events EXCEPT ![k].payload = x] : x \in OtherPayloads(events, events[k].payload)}

\* C12: for a valid chain and any event of it, altering only the hash, only
\* the prev_hash or only the payload of that event makes verify_chain return
\* (False, k), k being the event's index counted from 0.
C12_TamperDetectedAtIndex ==
    verify_chain(StoredEvents) = <<TRUE, None>> =>
        \A k \in 1..Len(StoredEvents) :
            \A tampered \in TamperedAt(StoredEvents, k) :
                verify_chain(tampered) = <<FALSE, Some(k - 1)>>

\* A valid chain of two events; the payload of the first was altered, and the
\* verifier rejects at index 0 although the link to the second still holds.
C12_Witness ==
    /\ Len(StoredEvents) = 2
    /\ verify_chain(StoredEvents) = <<TRUE, None>>
    /\ \E x \in OtherPayloads(StoredEvents, StoredEvents[1].payload) :
           LET tampered == [StoredEvents EXCEPT ![1].payload = x]
           IN  /\ tampered[2].prev_hash = tampered[1].hash
               /\ verify_chain(tampered) = <<FALSE, Some(0)>>

\* ------------------------------------------------------------------ C13

\* C13: a request whose subject has no patient_id, or an empty one, is
\* answered 400 (BadRequest_MissingPatientId); no audit row is written and
\* neither the rate limiter nor the policy engine is called.
C13_MissingPatientId400 ==
    \A p \in Procs :
        "no_patient_id" \in did[p] /\ Done(p) =>
            /\ out[p] = Http400
            /\ RowsOf(p) = {}
            /\ did[p] \cap ({"rules"} \cup PolicyTags) = {}

\* ------------------------------------------------------------------ C14

\* The values of v at the places where they occur first, in the order of v.
FirstOccurrences(v) ==
    LET First == {i \in 1..Len(v) : \A j \in 1..(i - 1) : v[j] # v[i]}
    IN  [k \in 1..Cardinality(First) |->
            v[CHOOSE i \in First : Cardinality({j \in First : j < i}) = k - 1]]

\* The lists of violation codes of length up to MaxViolations.
ViolationLists ==
    UNION {[1..n -> {"V1", "V2", "V3"}] : n \in 0..MaxViolations}

\* The violations of the answer to a policy deny that named `v`.
PolicyDenyViolations(v) == IF v = <<>> THEN <<"OPA_Deny">> ELSE FirstOccurrences(v)

\* The decisions OpaClient.evaluate can return with allow == false.
PolicyDenies ==
    {evaluate(x).value : x \in {y \in OpaExchanges : evaluate(y).raised = ""
                                                     /\ ~evaluate(y).value.allow}}

\* C14: when the policy engine returns allow == false the answer is 200 DENY
\* with the engine's violations, duplicates removed and first occurrences in
\* order, or exactly [OPA_Deny] when the engine named none; allowed_outputs is
\* empty. (The de-duplication depends on the list alone: it is compared on
\* every list of ViolationLists once, before any call starts.)
C14_PolicyDenyViolations ==
    /\ (\A p \in Procs : pc[p] = "idle") =>
           \A v \in ViolationLists : Dedup(v) = FirstOccurrences(v)
    /\ \A p \in Procs :
           "opa_deny" \in did[p] =>
               /\ Answered200(p)
               /\ Body(p).decision = "DENY"
               /\ Body(p).allowed_outputs = <<>>
               /\ \E od \in PolicyDenies :
                      Body(p).violations = PolicyDenyViolations(od.violations)
               /\ Body(p).violations # <<>>
               /\ \A i, j \in 1..Len(Body(p).violations) :
                      i # j => Body(p).violations[i] # Body(p).violations[j]

\* The rules allowed, the policy engine denied naming V1, V2, V1, and the
\* answer names V1, V2.
C14_Witness ==
    \E p \in Procs :
        /\ "opa_deny" \in did[p] /\ Done(p)
        /\ Res(p).decision = "ALLOW"
        /\ [allow |-> FALSE, violations |-> <<"V1", "V2", "V1">>] \in PolicyDenies
        /\ Body(p).violations = <<"V1", "V2">>

\* ------------------------------------------------------------------ C15

\* The call asked for a tool with a read-only projection, in READ_ONLY mode.
DegradedRead(p) ==
    /\ Req(p).mode = "READ_ONLY"
    /\ Req(p).tool \in DOMAIN READ_ONLY_ALLOWED

ClaimOf(p) == Key([fp |-> Fp(p), decision |-> None], ANTI_REPLAY_TTL_SECONDS)

\* The call's check_replay returned (it did not raise).
ClaimReturned(p) == did'[p] \cap {"replay_raised"} = {}

\* What one check_replay by call p does to the keys and tells the call.
ClaimStep(p) ==
    LET rid == Req(p).request_id
        k == replay_keys[rid]
    IN  /\ \A r \in RequestIds \ {rid} : replay_keys'[r] = replay_keys[r]
        /\ k.present =>
               /\ replay_keys'[rid] = k
               /\ "replay_new" \notin did'[p]
               /\ ClaimReturned(p) =>
                      /\ found'[p] = Some(k.value)
                      /\ did'[p] \cap ReplayOutcomes # {}
        /\ ~k.present =>
               /\ replay_keys'[rid] \in {k, ClaimOf(p)}
               /\ ClaimReturned(p) =>
                      /\ replay_keys'[rid] = ClaimOf(p)
                      /\ "replay_new" \in did'[p]
                      /\ found'[p] = None

\* The calls that were told is_new=True for the entry now stored under rid.
Claimants(rid) == {p \in passed_a[rid] : "replay_new" \in did[p]}

\* C16: check_replay is atomic. A call on a key without entry that returns is
\* told is_new=True and has created {fp, decision: null} with the TTL; a call
\* on a key with an entry is handed that entry and changes neither its value
\* nor its TTL; so every live entry was claimed by exactly one call (by none
\* only when the reply to the claim that created it was lost).
C16_ClaimIsAtomic ==
    /\ [][\A p \in Procs :
             pc[p] = "check_replay" /\ pc'[p] # "check_replay" => ClaimStep(p)]_vars
    /\ [](\A rid \in RequestIds :
             replay_keys[rid].present =>
                 \/ Cardinality(Claimants(rid)) = 1
                 \/ /\ Claimants(rid) = {}
                    /\ \E p \in Procs : /\ req[p] # None
                                         /\ Req(p).request_id = rid
                                         /\ "replay_raised" \in did[p])

\* C16 as stated: every live entry has exactly one call that was told
\* is_new=True.
C16_ExactlyOneClaimant ==
    \A rid \in RequestIds :
        replay_keys[rid].present => Cardinality(Claimants(rid)) = 1

\* Two calls in flight together with one request_id: one was told is_new=True,
\* the other was handed the pending entry later, and the entry still runs on
\* the lifetime it was created with.
C16_Witness ==
    \E p, q \in Procs :
        /\ p # q /\ SameRequestId(p, q)
        /\ done_before[p] = {} /\ done_before[q] = {}
        /\ "replay_new" \in did[p]
        /\ found[q] = Some([fp |-> Fp(p), decision |-> None])
        /\ now = 1
        /\ replay_keys[Req(p).request_id] = Key([fp |-> Fp(p), decision |-> None], 1)

\* ------------------------------------------------------------------ C17

\* What one store_decision by call p does to the keys.
StoreStep(p) ==
    LET rid == Req(p).request_id
        k == replay_keys[rid]
        stored == [fp |-> Fp(p), decision |-> Some(Res(p))]
    IN  /\ \A r \in RequestIds \ {rid} : replay_keys'[r] = replay_keys[r]
        /\ ~k.present => replay_keys'[rid] = k
        /\ k.present =>
               /\ replay_keys'[rid] \in {k, Key(stored, k.ttl)}
               /\ "store" \in did'[p] => replay_keys'[rid] = Key(stored, k.ttl)

\* C17: store_decision never creates an entry: on a key without entry it
\* changes nothing, and on a key with an entry it writes the decision and
\* leaves the remaining TTL as it was.
C17_StoreNeverCreatesKeepsTtl ==
    [][\A p \in Procs : pc[p] = "store" /\ pc'[p] # "store" => StoreStep(p)]_vars

\* One call stored its decision after its entry had expired and the key is
\* still empty; another stored into an entry with one second left, which
\* still has one second left.
C17_Witness ==
    \E p, q \in Procs :
        /\ "store" \in did[p] /\ "replay_new" \in did[p]
        /\ ~replay_keys[Req(p).request_id].present
        /\ "store" \in did[q] /\ "replay_new" \in did[q]
        /\ replay_keys[Req(q).request_id] =
               Key([fp |-> Fp(q), decision |-> Some(Res(q))], 1)

\* ------------------------------------------------------------------ C18

\* Call p returns in this step from the REPLAY_DETECTED append.
ReplayAuditReturns(p) ==
    /\ pc[p] \in {"audit_lock", "audit_insert", "audit_commit"}
    /\ evt[p].purpose = "replay"
    /\ pc'[p] = "done"

\* Call p returns in this step from the Stage E store_decision.
StoreReturns(p) == pc[p] = "store" /\ pc'[p] = "done"

\* The decision of call p is in the audit log.
Audited(p) ==
    \E i \in RowsOf(p) : /\ audit_events[i].event.payload.response = Res(p)
                         /\ audit_events[i].event.decision = Res(p).decision

\* C18: whether the REPLAY_DETECTED append succeeds or fails, the call is
\* answered 200 with the cached decision that check_replay handed it; and
\* whether store_decision succeeds or fails, the call is answered 200 with the
\* decision it had before the store, which is the audited one when auditing
\* is on.
C18_BestEffortKeepsDecision ==
    [][\A p \in Procs :
          /\ ReplayAuditReturns(p) =>
                 /\ found[p] # None /\ found[p][1].decision # None
                 /\ out'[p] = Http200(found[p][1].decision[1])
          /\ StoreReturns(p) =>
                 /\ out'[p] = Http200(Res(p))
                 /\ res'[p] = res[p]
                 /\ ~env.CASF_DISABLE_AUDIT => Audited(p)]_vars

\* The first call audited its decision and then saw store_decision fail (the
\* reply was lost); the second replayed it, its REPLAY_DETECTED append failed,
\* and both were answered with the same decision.
C18_Witness ==
    \E p, q \in Procs :
        /\ p # q /\ SameRequestId(p, q)
        /\ Done(p) /\ Done(q)
        /\ did[p] \ Sites = {"replay_new", "rules", "opa_allow", "audit_ok", "redis_raised"}
        /\ "replay_cached" \in did[q] /\ "audit_failed" \in did[q]
        /\ Answered200(p) /\ Answered200(q)
        /\ Body(q) = Body(p)
        /\ Body(p).decision = "ALLOW"

\* ------------------------------------------------------------------ C19

\* Call p is answered 200 DENY [Inv_ReplayConcurrent] in this step.
AnsweredConcurrent(p) ==
    /\ pc[p] # "done" /\ pc'[p] = "done"
    /\ out'[p][1].status_code = 200
    /\ out'[p][1].body[1].decision = "DENY"
    /\ out'[p][1].body[1].violations = <<"Inv_ReplayConcurrent">>

\* Call q sent the claim for the request_id and body of call p.
ClaimedFor(q, p) ==
    /\ q # p /\ SameRequestId(p, q) /\ Fp(q) = Fp(p)
    /\ did[q] \cap {"replay_new", "replay_raised"} # {}

\* Call q is in flight.
InFlight(q) == pc[q] \notin {"idle", "done"}

C20_NoExceptionEscapes ==
    \A p \in Procs :
        Done(p) =>
            \/ /\ out[p][1].status_code = 200
               /\ out[p][1].body # None
               /\ out[p][1].body[1].decision \in {"ALLOW", "DENY"}
            \/ out[p][1].status_code = 400

\* ------------------------------------------------------------------ C21

\* The kinds of OpaError.
OpaErrorKinds == {"timeout", "unavailable", "bad_status", "bad_response"}

\* The exchange brought a JSON object whose result has allow and violations.
WellFormed(x) ==
    /\ x.t = "json"
    /\ x.result # None
    /\ x.result[1].allow # None
    /\ x.result[1].violations # None

\* The exchange brought a body: not JSON, or JSON of any shape.
BroughtBody(x) == x.t \in {"non_json", "json_list", "json"}

\* C21: for a call at the policy stage and every outcome of the exchange,
\* evaluate returns the decision of a well-formed result, or raises OpaError
\* with one of the four kinds; a body that is not JSON or lacks the expected
\* fields raises bad_response.
C21_EvaluateTaxonomy ==
    \A p \in Procs :
        pc[p] = "opa" =>
            \A x \in OpaExchanges :
                LET od == evaluate(x)
                IN  \/ /\ WellFormed(x)
                       /\ od = Returned(OpaDecision(x.result[1].allow[1],
                                                    x.result[1].violations[1]))
                    \/ /\ ~WellFormed(x)
                       /\ od.raised = "OpaError"
                       /\ od.kind \in OpaErrorKinds
                       /\ BroughtBody(x) => od.kind = "bad_response"

\* ------------------------------------------------- export_audit_digest.py

\* ts::date. Where windows are concerned a step of the clock is a day.
Date(ts) == ts

Dates == 0..MaxTime

\* The SELECT of export_digest: the events of the table whose ts falls on
\* `date`, ORDER BY id ASC.
SelectWindow(table, date) ==
    LET sorted == ById(table)
        events == [i \in 1..Len(sorted) |-> sorted[i].event]
    IN  SelectSeq(events, LAMBDA e : Date(e.ts) = date)

\* A faulty continuity loop that also compares the first event's prev_hash,
\* with the genesis value.
ChainContinuousFromGenesis(rows, i) ==
    \A k \in i..Len(rows) :
        rows[k].prev_hash = (IF k = 1 THEN <<>> ELSE rows[k - 1].hash)

\* The loop of export_digest from position i (counted from 1) on: the first
\* row is skipped, the loop breaks at the first row whose prev_hash is not the
\* hash of the row before it.
RECURSIVE ChainContinuous(_, _)
ChainContinuous(rows, i) ==
    IF i > Len(rows) THEN TRUE
    ELSE IF i = 1 THEN ChainContinuous(rows, i + 1)
    ELSE IF rows[i].prev_hash # rows[i - 1].hash THEN FALSE
    ELSE ChainContinuous(rows, i + 1)

\* export_digest on the table as the connection shows it; generated_at, the
\* time of the run, is left out.
export_digest(table, date) ==
    LET rows == SelectWindow(table, date)
    IN  IF rows = <<>>
        THEN [window |-> date, event_count |-> 0,
              first_hash |-> None, last_hash |-> None, chain_valid |-> TRUE,
              digest_hash |-> _sha256_hex(<<"empty:", date>>)]
        ELSE LET digest_payload ==
                     [window |-> date, event_count |-> Len(rows),
                      first_hash |-> Some(rows[1].hash),
                      last_hash |-> Some(rows[Len(rows)].hash),
                      chain_valid |-> ChainContinuous(rows, 1)]
             IN  [window |-> digest_payload.window,
                  event_count |-> digest_payload.event_count,
                  first_hash |-> digest_payload.first_hash,
                  last_hash |-> digest_payload.last_hash,
                  chain_valid |-> digest_payload.chain_valid,
                  digest_hash |-> _sha256_hex(_canonical_json(digest_payload))]

\* What the database does to the run: it answers with the table, or
\* connecting or querying raises.
Databases(table) == {[raised |-> FALSE, table |-> table], [raised |-> TRUE]}

\* A faulty main that exits 0 whenever a digest was emitted.
MainExitsZeroOnDigest(pg, date) ==
    IF pg.raised THEN [exit |-> 2, stdout |-> None]
    ELSE [exit |-> 0, stdout |-> Some(export_digest(pg.table, date))]

\* main: the exit status and what was printed on stdout.
main(pg, date) ==
    IF pg.raised
    THEN [exit |-> 2, stdout |-> None]
    ELSE LET result == export_digest(pg.table, date)
         IN  [exit |-> IF result.chain_valid THEN 0 ELSE 1, stdout |-> Some(result)]

\* The event of an earlier request, alone in the log: genesis prev_hash, id 1.
SeedEvent ==
    LET request == [request_id |-> "r0", tool |-> "cliniccloud.list_appointments",
                    mode |-> "ALLOW", role |-> "nurse", patient_id |-> "p1",
                    tenant_id |-> "t1", timestamp |-> FALSE]
        response == apply_rules_v0(request, [kind |-> "unused"])
        payload == [request |-> request, response |-> response]
        h == compute_hash("r0", 0, 0, "role:nurse", request.tool, response.decision,
                          payload, <<>>)
    IN  AuditEventV1(0, "r0", 0, "role:nurse", request.tool, response.decision,
                     payload, <<>>, h)

\* Auditing on, anti-replay off, the log holding one event, the clock running.
DigestInit ==
    /\ env = [ANTI_REPLAY_ENABLED |-> FALSE, CASF_DISABLE_AUDIT |-> FALSE]
    /\ now = 0
    /\ replay_keys = [r \in RequestIds |-> NoKey]
    /\ sms_keys = [k \in SmsKeys |-> NoKey]
    /\ audit_events = <<[id |-> 1, event |-> SeedEvent]>>
    /\ id_seq = 1
    /\ lock = 0
    /\ pc = [p \in Procs |-> "idle"]
    /\ req = [p \in Procs |-> None]
    /\ res = [p \in Procs |-> None]
    /\ evt = [p \in Procs |-> NoEvt]
    /\ out = [p \in Procs |-> None]
    /\ METRICS = NoMetrics
    /\ did = [p \in Procs |-> {}]
    /\ done_before = [p \in Procs |-> {}]
    /\ found = [p \in Procs |-> None]
    /\ passed_a = [r \in RequestIds |-> {}]
    /\ sms_allowed = [k \in SmsKeys |-> 0]

DigestNext ==
    \/ \E p \in Procs : \E r \in AuditRequests(p) : Verify(p, r)
    \/ \E p \in Procs : AuditStep(p)
    \/ Tick

DigestSpec == DigestInit /\ [][DigestNext]_vars

\* ------------------------------------------------------------------ C22

\* The log, and every table that differs from it in the prev_hash or the hash
\* of one event.
LinkAlteredTables ==
    LET sorted == ById(audit_events)
    IN  {sorted}
        \cup {[sorted EXCEPT ![k].event.prev_hash = h] :
                 k \in 1..Len(sorted),
                 h \in ({<<>>, _sha256_hex(<<"tampered">>)}
                        \cup {sorted[i].event.hash : i \in 1..Len(sorted)})}
        \cup {[sorted EXCEPT ![k].event.hash = h] :
                 k \in 1..Len(sorted),
                 h \in ({<<>>, _sha256_hex(<<"tampered">>)}
                        \cup {sorted[i].event.hash : i \in 1..Len(sorted)})}

\* Some event of the window after the first does not point at the event
\* before it.
BrokenLinkInWindow(rows) ==
    \E i \in 2..Len(rows) : rows[i].prev_hash # rows[i - 1].hash

C23_ExitStatusEncodesIntegrity ==
    \A table \in LinkAlteredTables : \A date \in Dates :
        \A pg \in Databases(table) :
            LET m == main(pg, date)
            IN  /\ pg.raised => m.exit = 2 /\ m.stdout = None
                /\ ~pg.raised =>
                       /\ m.stdout # None
                       /\ m.stdout[1].window = date
                       /\ m.exit \in {0, 1}
                       /\ m.exit = 0 <=> m.stdout[1].chain_valid
                       /\ SelectWindow(table, date) = <<>> =>
                              /\ m.exit = 0
                              /\ m.stdout[1].event_count = 0
                              /\ m.stdout[1].first_hash = None
                              /\ m.stdout[1].last_hash = None
                              /\ m.stdout[1].digest_hash = _sha256_hex(<<"empty:", date>>)
                       /\ SelectWindow(table, date) # <<>> =>
                              m.stdout[1].event_count = Len(SelectWindow(table, date))

\* The log as the service wrote it has a day whose window is broken (status
\* 1, digest emitted), a day without events (status 0, empty digest), and a
\* run whose database is down ends with status 2.
C23_Witness ==
    /\ \E date \in Dates :
           LET m == main([raised |-> FALSE, table |-> audit_events], date)
           IN  m.exit = 1 /\ m.stdout # None /\ m.stdout[1].event_count >= 2
    /\ \E date \in Dates :
           LET m == main([raised |-> FALSE, table |-> audit_events], date)
           IN  m.exit = 0 /\ m.stdout[1].event_count = 0
    /\ main([raised |-> TRUE], 0).exit = 2

\* ------------------------------------------------------------------ C24

\* No call is in flight.
Quiet == \A p \in Procs : pc[p] \in {"idle", "done"}

\* The stage whose failure made the answer of call p, "" when none did.
FailClosedTrigger(p) ==
    IF "replay_raised" \in did[p] /\ IsWrite(p) THEN "redis"
    ELSE IF "rules_fail_closed" \in did[p] THEN "rules"
    ELSE IF "opa_error" \in did[p] /\ IsWrite(p) THEN "opa"
    ELSE IF StageDAuditFailure(p) THEN "audit"
    ELSE ""

\* C24: once every call has been answered, casf_fail_closed_total{trigger}
\* reads the number of answers caused by a failure of that stage: redis for
\* the idempotency store on a write, rules for the rate limiter, opa for the
\* policy engine on a write, audit for the audit append.
C24_FailClosedCountedOnce ==
    Quiet =>
        \A t \in {"redis", "rules", "opa", "audit"} :
            METRICS.counters[<<"casf_fail_closed_total", t>>]
                = Cardinality({p \in Procs : Done(p) /\ FailClosedTrigger(p) = t})

\* ------------------------------------------------------------------ C25

\* The METRICS.inc calls of casf_verify_decision_total{d} that call p ran.
DecisionCounted(p, d) ==
    Cardinality({site \in did[p] : SiteCounter(site) = Some(<<"casf_verify_decision_total", d>>)})

\* C25: once every call has been answered, the casf_verify_decision_total
\* counters add up to the number of 200 answers, every 200 answer was counted
\* once under the decision it carries and under no other, and
\* casf_replay_hit_total reads the number of cached replays.
C25_DecisionsCountedOnce ==
    Quiet =>
        /\ METRICS.counters[<<"casf_verify_decision_total", "ALLOW">>]
             + METRICS.counters[<<"casf_verify_decision_total", "DENY">>]
                = Cardinality({p \in Procs : Answered200(p)})
        /\ \A p \in Procs : \A d \in {"ALLOW", "DENY"} :
               Answered200(p) =>
                   DecisionCounted(p, d) = (IF Body(p).decision = d THEN 1 ELSE 0)
        /\ METRICS.counters[<<"casf_replay_hit_total", "">>]
                = Cardinality({p \in Procs : "replay_cached" \in did[p]})

\* ------------------------------------------------------------------ C26

\* C26: casf_verify_in_flight reads the number of calls that have entered
\* verify() and have not returned or raised; so it is never negative, and 0
\* when no call is in flight, whatever way the calls ended.
C26_InFlightGauge ==
    /\ METRICS.gauges["casf_verify_in_flight"] = Cardinality({p \in Procs : InFlight(p)})
    /\ METRICS.gauges["casf_verify_in_flight"] >= 0
    /\ Quiet => METRICS.gauges["casf_verify_in_flight"] = 0
    /\ METRICS.counters[<<"casf_verify_total", "">>]
           = Cardinality({p \in Procs : pc[p] # "idle"})

\* One call ended with an exception (500) while the other is still in flight:
\* the gauge reads 1.
C26_Witness ==
    \E p, q \in Procs :
        /\ Done(p) /\ out[p] = Http500
        /\ InFlight(q)
        /\ done_before[q] = {}
        /\ METRICS.gauges["casf_verify_in_flight"] = 1

\* ------------------------------------------------------------------ C27

\* What a step does to the lifetime of the entry of rid: a new entry starts
\* with the whole TTL, a living entry loses exactly the time that passed, and
\* an entry goes away only when time passed and its remaining TTL is used up.
LifetimeStep(rid) ==
    LET k == replay_keys[rid]
        kn == replay_keys'[rid]
    IN  /\ ~k.present /\ kn.present =>
               /\ kn.ttl = ANTI_REPLAY_TTL_SECONDS
               /\ kn.value.decision = None
               /\ now' = now
        /\ k.present /\ kn.present => kn.ttl = k.ttl - (now' - now)
        /\ k.present /\ ~kn.present => now' > now /\ k.ttl <= now' - now

\* C27: every entry is created with the TTL, and no step of the pipeline
\* deletes an entry or extends its lifetime: an entry, pending or decided,
\* is gone exactly TTL after it was claimed and not before.
C27_TtlIsTheBackstop ==
    /\ [](\A rid \in RequestIds :
             replay_keys[rid].present =>
                 replay_keys[rid].ttl \in 1..ANTI_REPLAY_TTL_SECONDS)
    /\ [][\A rid \in RequestIds : LifetimeStep(rid)]_vars

\* The first call claimed the entry, was denied by the policy engine and left
\* it pending; the TTL went by, and the second call with the same request_id
\* and body was told is_new=True.
C27_Witness ==
    \E p, q \in Procs :
        /\ p # q /\ SameRequestId(p, q) /\ Fp(p) = Fp(q)
        /\ p \in done_before[q]
        /\ "replay_new" \in did[p] /\ "opa_deny" \in did[p]
        /\ "replay_new" \in did[q] /\ found[q] = None
        /\ now = ANTI_REPLAY_TTL_SECONDS
        /\ replay_keys[Req(q).request_id] = ClaimOf(q)

\* ------------------------------------------------------------------ C28

\* The request of call p is a write in a safe mode.
SafeModeWrite(p) == req[p] # None /\ IsWrite(p) /\ Req(p).mode \in SafeModes

\* C28: whatever the idempotency store, the rate limiter, the policy engine
\* and the audit store do, a write in READ_ONLY or KILL_SWITCH is never
\* answered ALLOW: its answer is 200 DENY, also when it is a replayed one, or
\* carries no decision at all.
C28_NoWriteAllowedInSafeMode ==
    \A p \in Procs :
        SafeModeWrite(p) =>
            /\ res[p] # None => Res(p).decision = "DENY"
            /\ Done(p) =>
                   \/ Answered200(p) /\ Body(p).decision = "DENY"
                   \/ out[p] = Http500
            /\ \A rid \in RequestIds :
                   /\ replay_keys[rid].present
                   /\ replay_keys[rid].value.fp = Fp(p)
                   /\ replay_keys[rid].value.decision # None
                   => replay_keys[rid].value.decision[1].decision = "DENY"

\* A KILL_SWITCH write was denied by the rule, allowed by the policy engine,
\* audited and stored; the same request sent again is answered from the store
\* with the same DENY.
C28_Witness ==
    \E p, q \in Procs :
        /\ p # q /\ SameRequestId(p, q) /\ Fp(p) = Fp(q)
        /\ SafeModeWrite(q) /\ Req(q).mode = "KILL_SWITCH"
        /\ "opa_allow" \in did[p] /\ "store" \in did[p]
        /\ "replay_cached" \in did[q] /\ Done(q)
        /\ Body(q).decision = "DENY"
        /\ Body(q).violations = <<"Inv_NoWriteSafe">>


\* ------------------------------------------------------------------ C29

\* The step rewrites the value of the live entry of rid.
Rewritten(rid) ==
    /\ replay_keys[rid].present
    /\ replay_keys'[rid].present
    /\ replay_keys'[rid].value # replay_keys[rid].value

\* The calls whose store_decision runs in this step on the key of rid.
Storing(rid) ==
    {p \in Procs : /\ pc[p] = "store" /\ pc'[p] # "store"
                   /\ Req(p).request_id = rid}

\* The fp of a live entry never changes.
FpKept(rid) ==
    Rewritten(rid) => replay_keys'[rid].value.fp = replay_keys[rid].value.fp

\* The decision of a live entry is written only over null.
DecisionWrittenOnce(rid) ==
    Rewritten(rid) => replay_keys[rid].value.decision = None

\* A live entry that some call was told it created is rewritten by that call
\* only.
WrittenByCreator(rid) ==
    Rewritten(rid) /\ Claimants(rid) # {} => Storing(rid) \subseteq Claimants(rid)

\* C29: an idempotency entry is write-once per lifetime: while it lives its fp
\* never changes, its decision goes from null to a decision at most once, and
\* only the call that created the entry writes its decision.
C29_EntryWriteOnce ==
    [][\A rid \in RequestIds :
           FpKept(rid) /\ DecisionWrittenOnce(rid) /\ WrittenByCreator(rid)]_vars

\* ------------------------------------------------------------------ C30

\* C30: the log holds only rows written by append_audit_event, and
\* export_digest reports chain_valid = true for the window of every date.
C30_EveryWindowValid ==
    \A date \in Dates : export_digest(audit_events, date).chain_valid

\* ------------------------------------------------------------------ C31

\* C31: the order of the durable ids of the committed audit events agrees
\* with the order of their timestamps: id[a] < id[b] implies ts[a] <= ts[b].
C31_IdOrderAgreesWithTs ==
    \A a, b \in 1..Len(audit_events) :
        audit_events[a].id < audit_events[b].id =>
            audit_events[a].event.ts <= audit_events[b].event.ts

\* ------------------------------------------------------------------ C32

\* A faulty loop that goes on after a mismatch and reports the last one.
VerifyChainReportsLast(events, i) ==
    LET Bad == {k \in i..(Len(events) - 1) :
                   \/ events[k + 1].prev_hash # (IF k > 0 THEN events[k].hash ELSE <<>>)
                   \/ events[k + 1].hash #
                          compute_hash(events[k + 1].request_id, events[k + 1].event_id,
                                       events[k + 1].ts, events[k + 1].actor,
                                       events[k + 1].action, events[k + 1].decision,
                                       events[k + 1].payload, events[k + 1].prev_hash)}
    IN  IF Bad = {} THEN <<TRUE, None>>
        ELSE <<FALSE, Some(CHOOSE k \in Bad : \A j \in Bad : j <= k)>>

\* The loop of verify_chain from index i (counted from 0) on: the prev_hash
\* comparison, then the recomputation, returning at the first mismatch.
RECURSIVE VerifyChainLoop(_, _)
VerifyChainLoop(events, i) ==
    IF i >= Len(events) THEN <<TRUE, None>>
    ELSE LET e == events[i + 1]
             expected_prev == IF i > 0 THEN events[i].hash ELSE <<>>
             expected_hash == compute_hash(e.request_id, e.event_id, e.ts, e.actor,
                                           e.action, e.decision, e.payload, e.prev_hash)
         IN  IF e.prev_hash # expected_prev THEN <<FALSE, Some(i)>>
             ELSE IF e.hash # expected_hash THEN <<FALSE, Some(i)>>
             ELSE VerifyChainLoop(events, i + 1)

\* The event at index i (from 0) passes the prev_hash check.
PrevHashOk(events, i) ==
    events[i + 1].prev_hash = (IF i = 0 THEN <<>> ELSE events[i].hash)

\* The event at index i (from 0) passes the recomputation.
HashOk(events, i) ==
    events[i + 1].hash =
        compute_hash(events[i + 1].request_id, events[i + 1].event_id, events[i + 1].ts,
                     events[i + 1].actor, events[i + 1].action, events[i + 1].decision,
                     events[i + 1].payload, events[i + 1].prev_hash)

\* The indices at which one of the two checks fails.
FailingIndices(events) ==
    {i \in 0..(Len(events) - 1) : ~PrevHashOk(events, i) \/ ~HashOk(events, i)}

\* The lists handed to the verifier: the stored chain, its slices (the empty
\* list among them), for chains of up to three events the chain with one
\* field altered and, for chains of two events, with one field of each event
\* altered.
ChainInputs ==
    LET stored == StoredEvents
        n == Len(stored)
        once == UNION {TamperedAt(stored, k) : k \in 1..n}
        twice == UNION {UNION {TamperedAt(t, n) : t \in TamperedAt(stored, k)} :
                           k \in 1..(n - 1)}
    IN  {SubSeq(stored, i, j) : i \in 1..(n + 1), j \in 0..n}
        \cup (IF n <= 3 THEN once ELSE {}) \cup (IF n <= 2 THEN twice ELSE {})

\* C32: verify_chain returns (True, None) exactly when every event passes
\* both checks (prev_hash is the previous event's hash, or "" at index 0, and
\* hash is the recomputation); otherwise (False, k) with k the smallest index
\* at which a check fails. The empty list yields (True, None).
C32_VerifyChainExact ==
    /\ VerifyChainLoop(<<>>, 0) = <<TRUE, None>>
    /\ (\A p \in Procs : pc[p] = "done") =>
           \A events \in ChainInputs :
               LET r == VerifyChainLoop(events, 0)
                   fails == FailingIndices(events)
               IN  /\ (r = <<TRUE, None>>) <=> (fails = {})
                   /\ fails # {} => r = <<FALSE, Some(Least(fails))>>
                   /\ r = verify_chain(events)

\* The log holds two events; among the lists checked are the chain itself
\* (valid), one with checks failing at both indices (reported at 0), one
\* failing only at index 1, and the chain without its first event (its
\* prev_hash is not "", reported at 0).
C32_Witness ==
    /\ \A p \in Procs : pc[p] = "done"
    /\ Len(StoredEvents) = 2
    /\ VerifyChainLoop(StoredEvents, 0) = <<TRUE, None>>
    /\ \E events \in ChainInputs :
           /\ FailingIndices(events) = {0, 1}
           /\ VerifyChainLoop(events, 0) = <<FALSE, Some(0)>>
    /\ \E events \in ChainInputs :
           /\ FailingIndices(events) = {1}
           /\ VerifyChainLoop(events, 0) = <<FALSE, Some(1)>>
    /\ VerifyChainLoop(SubSeq(StoredEvents, 2, 2), 0) = <<FALSE, Some(0)>>

\* ------------------------------------------------------------------ C33

\* C33: with anti-replay enabled, Stage A computes the fingerprint and
\* performs the claim for every validated request, one carrying
\* context.timestamp included; the store-error branch is taken only when the
\* store itself fails.
C33_ClaimForEveryRequest ==
    \A p \in Procs :
        req[p] # None /\ pc[p] \notin {"idle", "check_replay"} =>
            /\ "replay_raised" \in did[p] => "redis_raised" \in did[p]
            /\ "replay_raised" \notin did[p] =>
                   did[p] \cap ({"replay_new"} \cup ReplayOutcomes) # {}

\* ------------------------------------------------------------------ C34

\* The tables in which the payload of one event was altered after the fact,
\* its hash and every link left as they were.
PayloadAlteredTables ==
    LET sorted == ById(audit_events)
    IN  UNION {{[sorted EXCEPT ![k].event.payload = x] :
                   x \in {[sorted[k].event.payload EXCEPT !.response.decision =
                               IF @ = "ALLOW" THEN "DENY" ELSE "ALLOW"],
                          [sorted[k].event.payload EXCEPT !.response.reason = "tampered"]}} :
               k \in 1..Len(sorted)}

\* The stored hash of some event of the window is not the recomputation from
\* the event's own fields.
StaleHashInWindow(rows) ==
    \E i \in 1..Len(rows) : ~HashOk(rows, i - 1)

\* C34: the digest's chain_valid reflects full chain verification: when an
\* event of the window has a stored hash that is not the recomputation from
\* its own fields, export_digest reports chain_valid = false. Stated for the
\* logs the service has appended to.
C34_DigestRecomputesHashes ==
    Len(audit_events) > 1 =>
        \A table \in PayloadAlteredTables : \A date \in Dates :
            StaleHashInWindow(SelectWindow(table, date)) =>
                ~export_digest(table, date).chain_valid

\* ------------------------------------------------------------------ C35

\* The call was answered at Stage A as a replay.
ReplayAnswered(p) == did[p] \cap ReplayOutcomes # {}

\* The rows a step adds to the audit table.
AddedRows ==
    {audit_events'[i] : i \in (Len(audit_events) + 1)..Len(audit_events')}

\* What a step of a call answered as a replay may do: it leaves both kinds of
\* keys alone; it appends nothing, or (cached case) its one REPLAY_DETECTED row.
ReplayStep(p) ==
    /\ sms_keys' = sms_keys
    /\ replay_keys' = replay_keys
    /\ SubSeq(audit_events', 1, Len(audit_events)) = audit_events
    /\ \A row \in AddedRows :
           /\ "replay_cached" \in did'[p]
           /\ row.event.event_id = uuid4(p)
           /\ row.event.action = "REPLAY_DETECTED"
           /\ RowsOf(p) = {}

\* C35: a request answered at Stage A as a replay (payload mismatch,
\* concurrent, cached decision) touches no other gate: it never reaches the
\* rules (so the SMS counter is not incremented), never calls the policy
\* engine, never stores, leaves the idempotency entry as it found it, and
\* writes no audit row but the one REPLAY_DETECTED event of the cached case.
C35_ReplayHasNoSideEffect ==
    /\ [](\A p \in Procs :
             req[p] # None /\ ReplayAnswered(p) =>
                 /\ did[p] \cap ({"rules", "rules_fail_closed", "store"} \cup PolicyTags) = {}
                 /\ Cardinality(RowsOf(p)) <= (IF "replay_cached" \in did[p] THEN 1 ELSE 0)
                 /\ \A i \in RowsOf(p) : audit_events[i].event.action = "REPLAY_DETECTED"
                 /\ Cardinality(did[p] \cap ReplayOutcomes) = 1)
    /\ [][\A p \in Procs :
             pc'[p] # pc[p] /\ did'[p] \cap ReplayOutcomes # {} => ReplayStep(p)]_vars

\* The first call stored the decision on an SMS; the second, with the same
\* request, was answered with the cached decision and its REPLAY_DETECTED row
\* is in the log; the counter of the SMS key still reads 1.
C35_Witness ==
    \E p, q \in Procs :
        /\ p # q /\ SameRequestId(p, q)
        /\ Done(p) /\ "store" \in did[p] /\ IsWrite(p)
        /\ Done(q) /\ "replay_cached" \in did[q] /\ "audit_ok" \in did[q]
        /\ Cardinality(RowsOf(q)) = 1
        /\ sms_keys[SmsKey(Req(p))].present
        /\ sms_keys[SmsKey(Req(p))].value = 1

\* ------------------------------------------------------------------ C36

\* The call that wrote the event: the one that drew its event_id.
WriterOf(e) == CHOOSE p \in Procs : uuid4(p) = e.event_id

\* The event was written by one of the calls (not there before the service
\* started).
WrittenByCall(e) == \E p \in Procs : uuid4(p) = e.event_id /\ req[p] # None

\* The event says what its writer was told.
AgreesWithAnswer(e) ==
    LET p == WriterOf(e)
    IN  /\ e.request_id = Req(p).request_id
        /\ e.payload.request = Req(p)
        /\ e.decision = e.payload.response.decision
        /\ "replay_cached" \in did[p] <=> e.action = "REPLAY_DETECTED"
        /\ "replay_cached" \notin did[p] => e.action = Req(p).tool
        /\ "replay_cached" \in did[p] =>
               e.payload.response = found[p][1].decision[1]
        /\ Done(p) =>
               /\ Answered200(p)
               /\ Body(p) = e.payload.response
               /\ Body(p).decision = e.decision

\* C36: every audit row agrees with what the caller was told: its decision
\* field and the response nested in its payload are the response returned to
\* the call that wrote it (the original decision for a normal event, the
\* cached decision for a REPLAY_DETECTED event); and no step of the pipeline
\* updates or deletes a committed row.
C36_RowsAgreeWithAnswers ==
    /\ [](\A i \in 1..Len(audit_events) :
             WrittenByCall(audit_events[i].event) =>
                 AgreesWithAnswer(audit_events[i].event))
    /\ [][/\ Len(audit_events') \in {Len(audit_events), Len(audit_events) + 1}
          /\ SubSeq(audit_events', 1, Len(audit_events)) = audit_events]_vars

\* Both calls are answered and both wrote a row: one the ALLOW it was given
\* by rules and policy engine, the other the REPLAY_DETECTED event carrying
\* the same cached ALLOW.
C36_Witness ==
    \E p, q \in Procs :
        /\ p # q /\ Done(p) /\ Done(q)
        /\ "store" \in did[p] /\ "replay_cached" \in did[q]
        /\ Body(p).decision = "ALLOW" /\ Body(q) = Body(p)
        /\ \E i, j \in 1..Len(audit_events) :
               /\ audit_events[i].event.event_id = uuid4(p)
               /\ audit_events[j].event.event_id = uuid4(q)
               /\ audit_events[j].event.action = "REPLAY_DETECTED"
               /\ audit_events[i].event.decision = "ALLOW"

\* ------------------------------------------------------------------ C37

\* Where a call stands while it is inside append_audit_event's transaction.
AuditStages == {"audit_lock", "audit_insert", "audit_commit"}

\* The step is one in which the append of call p raises.
AppendRaises(p) ==
    /\ pc[p] \in AuditStages
    /\ "audit_failed" \in did'[p] \ did[p]

\* C37: append_audit_event is all-or-nothing: when taking the lock or reading
\* the last hash, the insert or the commit fails, the table and its chain head
\* are as before, the advisory lock is not held by the call any more (and
\* nobody else's lock is touched), and the exception reaches the caller, which
\* answers; a call whose append raised has no row, one whose append returned
\* has exactly one.
C37_AppendAllOrNothing ==
    /\ [][\A p \in Procs :
             AppendRaises(p) =>
                 /\ audit_events' = audit_events
                 /\ _get_prev_hash(audit_events') = _get_prev_hash(audit_events)
                 /\ lock' # p
                 /\ lock # p => lock' = lock
                 /\ pc'[p] = "done"
                 /\ evt'[p] = NoEvt]_vars
    /\ [](\A p \in Procs :
             /\ lock = p => pc[p] \in {"audit_insert", "audit_commit"}
             /\ "audit_failed" \in did[p] => RowsOf(p) = {}
             /\ "audit_ok" \in did[p] => Cardinality(RowsOf(p)) = 1)

\* The commit of one call failed after its insert had drawn id 1: the table
\* stayed empty and the lock came free; the other call then appended the
\* genesis event, with id 2.
C37_Witness ==
    \E p, q \in Procs :
        /\ p # q
        /\ Done(p) /\ "audit_failed" \in did[p]
        /\ Done(q) /\ "audit_ok" \in did[q]
        /\ lock = 0
        /\ id_seq = 2
        /\ Len(audit_events) = 1
        /\ audit_events[1].id = 2
        /\ audit_events[1].event.event_id = uuid4(q)
        /\ audit_events[1].event.prev_hash = <<>>

\* ------------------------------------------------------------------ C38

\* The key after one more run of the counter script: a new key counts 1 and
\* expires a window later, a living key counts one more and keeps its expiry.
Counted(k, window_s) ==
    IF k.present THEN Key(k.value + 1, k.ttl) ELSE Key(1, window_s)

\* What the limiter check of call p does to the counters and tells the rules.
LimiterStep(p) ==
    LET key == SmsKey(Req(p))
        k == sms_keys[key]
        counted == Counted(k, SmsWindow(Req(p).tenant_id))
    IN  /\ \A other \in SmsKeys \ {key} : sms_keys'[other] = sms_keys[other]
        /\ sms_keys'[key] \in {k, counted}
        /\ "rules_fail_closed" \notin did'[p] =>
               /\ sms_keys'[key] = counted
               /\ res'[p][1].decision = "ALLOW" <=> counted.value <= SmsLimit(Req(p).tenant_id)

\* What a step does to the lifetime of the counter `key`: it starts with the
\* whole window, loses exactly the time that passes, is never extended, and
\* goes away (the count with it) only when its time is used up.
CounterLifetimeStep(key) ==
    LET k == sms_keys[key]
        kn == sms_keys'[key]
    IN  /\ ~k.present /\ kn.present =>
               kn.ttl = SmsWindow(key[1]) /\ kn.value = 1 /\ now' = now
        /\ k.present /\ kn.present =>
               /\ kn.ttl = k.ttl - (now' - now)
               /\ kn.value \in {k.value, k.value + 1}
               /\ now' > now => kn.value = k.value
        /\ k.present /\ ~kn.present => now' > now /\ k.ttl <= now' - now

\* C38: every SMS counter key that exists has an expiry, set with its
\* creation to the window and never extended by later increments; the count a
\* check gets is the number of runs of the script on the key since the window
\* began, and the counter is gone when the window is over.
C38_CounterWindow ==
    /\ [](\A key \in SmsKeys :
             sms_keys[key].present =>
                 /\ sms_keys[key].ttl \in 1..SmsWindow(key[1])
                 /\ sms_keys[key].value >= 1)
    /\ [][\A key \in SmsKeys : CounterLifetimeStep(key)]_vars
    /\ [][\A p \in Procs :
             pc[p] = "rules" /\ pc'[p] # "rules" /\ RulesCallLimiter(Req(p))
                 => LimiterStep(p)]_vars

\* The first request created the counter and was allowed; the window went by
\* and the counter with it; the second request for the same patient created
\* it anew, counts 1 with a full window, and was allowed as well.
C38_Witness ==
    \E p, q \in Procs :
        /\ p # q
        /\ SmsEvaluated(p) /\ SmsEvaluated(q)
        /\ SmsKey(Req(p)) = SmsKey(Req(q))
        /\ p \in done_before[q]
        /\ Res(p).decision = "ALLOW" /\ Res(q).decision = "ALLOW"
        /\ now = SMS_RATE_WINDOW_S
        /\ sms_keys[SmsKey(Req(q))] = Key(1, SMS_RATE_WINDOW_S)

\* -------------------------------------------------------------- histogram

\* Most observe calls in one behaviour.
MaxObservations == 4

\* The bucket bounds of the registered histogram (metrics.py 186-190 gives
\* nine, in seconds); three bounds, in whole units, stand for them.
HistBuckets == <<1, 2, 3>>

\* The names observe is called with: the registered histogram and one that
\* was never registered.
HistNames == {"casf_verify_duration_seconds", "unregistered"}

\* The values observed: on, between, below and above the bounds.
ObservedValues == 0..4

\* sum(xs[1..n]).
RECURSIVE SumTo(_, _)
SumTo(xs, n) == IF n = 0 THEN 0 ELSE SumTo(xs, n - 1) + xs[n]

\* _Metrics.observe for the series without labels: nothing for a name that
\* is not registered; else every bucket whose bound is >= value is
\* incremented, the last slot (+Inf) always, and sum and count are updated.
observe(m, name, value) ==
    IF name # "casf_verify_duration_seconds" THEN m
    ELSE LET n == Len(HistBuckets)
             counts == IF m.hist_counts = None THEN [i \in 1..(n + 1) |-> 0]
                       ELSE m.hist_counts[1]
             sums == IF m.hist_sums = None THEN [sum |-> 0, count |-> 0]
                     ELSE m.hist_sums[1]
         IN  [m EXCEPT
                !.hist_counts =
                    Some([i \in 1..(n + 1) |->
                            IF i = n + 1 THEN counts[i] + 1
                            ELSE IF value <= HistBuckets[i] THEN counts[i] + 1
                            ELSE counts[i]]),
                !.hist_sums = Some([sum |-> sums.sum + value, count |-> sums.count + 1])]

\* f"{x:.6f}" of a whole number: its digits and six zeros after the point.
Fixed6(x) == [whole |-> x, decimals |-> <<0, 0, 0, 0, 0, 0>>]

\* The histogram part of _Metrics.render for the series without labels: no
\* sample lines while the series does not exist; else one _bucket line per
\* bound carrying the running total of the stored slots up to it, the +Inf
\* bucket and _count carrying the stored count, and _sum.
render(m) ==
    IF m.hist_counts = None THEN None
    ELSE LET bucket_counts == m.hist_counts[1]
             sum_count == IF m.hist_sums = None THEN [sum |-> 0, count |-> 0]
                          ELSE m.hist_sums[1]
         IN  Some([bucket |-> [i \in 1..Len(HistBuckets) |-> SumTo(bucket_counts, i)],
                   inf |-> sum_count.count,
                   sum |-> Fixed6(sum_count.sum),
                   count |-> sum_count.count])

\* The number of observations recorded so far.
Observations == IF METRICS.hist_sums = None THEN 0 ELSE METRICS.hist_sums[1].count

\* One METRICS.observe(name, value) call.
Observe ==
    /\ Observations < MaxObservations
    /\ \E name \in HistNames : \E value \in ObservedValues :
           METRICS' = observe(METRICS, name, value)
    /\ UNCHANGED <<env, now, replay_keys, sms_keys, audit_events, id_seq, lock,
                   pc, req, res, evt, out, did, done_before, found, passed_a,
                   sms_allowed>>

\* The registry on its own: observations arrive, nothing else happens.
HistNext == Observe

HistSpec == Init /\ [][HistNext]_vars

\* ------------------------------------------------------------------ C39

\* The value of the bucket line of bound number i, 0 while the series has no
\* lines.
BucketLine(m, i) == IF render(m) = None THEN 0 ELSE render(m)[1].bucket[i]

\* The value observed by the step, read off the sum.
StepValue ==
    METRICS'.hist_sums[1].sum
        - (IF METRICS.hist_sums = None THEN 0 ELSE METRICS.hist_sums[1].sum)

\* C39: after any sequence of observe calls render emits for each bound b a
\* bucket value equal to the number of observations <= b (each observation
\* adds 1 to the buckets whose bound is at least the value and nothing to the
\* others); bucket values are non-decreasing in b and none exceeds the +Inf
\* bucket, which equals the _count line.
C39_BucketsCountObservations ==
    /\ [](render(METRICS) # None =>
             LET r == render(METRICS)[1]
             IN  /\ \A i \in 1..(Len(HistBuckets) - 1) : r.bucket[i] <= r.bucket[i + 1]
                 /\ \A i \in 1..Len(HistBuckets) : r.bucket[i] <= r.inf
                 /\ r.inf = r.count
                 /\ r.count = Observations)
    /\ [][METRICS' # METRICS =>
             \A i \in 1..Len(HistBuckets) :
                 BucketLine(METRICS', i) - BucketLine(METRICS, i)
                     = (IF StepValue <= HistBuckets[i] THEN 1 ELSE 0)]_vars

====
